---- MODULE Spec2Model ----
(***************************************************************************)
(* Verification model of the sliding-window analytics trackers under       *)
(* src/python/system_algo: the three RingBuffer/AtomicBucket variants      *)
(* (orderbook.py, event_tracker.py, carpark.py), the OrderBook facade, the *)
(* two RollingCMS variants (impression_tracker.py, hashtag_tracker.py) and *)
(* the TrendingTracker clock.                                              *)
(*                                                                         *)
(* Every subsystem has its own variables and its own specification; a      *)
(* specification leaves the variables of the other subsystems unchanged.   *)
(***************************************************************************)
EXTENDS Integers, Sequences, FiniteSets, Bags, TLC

VARIABLES
    \* --- the three RingBuffer variants, driven call by call ---
    obRing,         \* orderbook.RingBuffer.buckets: index -> [start_time, quantity]
    etRing,         \* event_tracker.RingBuffer.buckets: index -> [start_time, count]
    cpRing,         \* carpark.RingBuffer.buckets: index -> [start_time, quantity]
    ringOp,         \* the last call made on a ring: [impl, kind, ts, count]
    ringLive,       \* bag of <<impl, ts, count>>: adds made and not yet taken back
    ringCalls,      \* number of calls made so far (bounded by MaxRingCalls)
    \* --- threads inside orderbook.RingBuffer.add on obRing ---
    addPc,          \* thread -> "idle" | "try" | "reset"
    addArg,         \* thread -> [ts, count] of the call in flight
    addCalls,       \* thread -> calls started so far
    addSum,         \* sum of the deltas of all calls started
    \* --- orderbook.OrderBook, single-threaded ---
    storage,        \* order_id -> NoOrder | [rounded_price, quantity, timestamp]
    price_buckets,  \* rounded_price -> ring (a defaultdict of empty rings)
    current_time,
    global_heap,    \* heapdict: a function from the tracked prices to their count
    bookOp,         \* the last call: [kind, id, ts, applied]
    bookMaxTs,      \* largest timestamp of a call that was applied to the book
    bookCalls,      \* number of calls made so far (bounded by MaxBookCalls)
    \* --- threads inside OrderBook.record_order / update_order ---
    price_stripe,   \* rounded_price -> hash(rounded_price) % num_locks
    price_lock,     \* stripe -> [owner, depth] of the RLock (owner 0: free)
    callPc,         \* thread -> position inside its call
    call,           \* thread -> arguments and locals of the call in flight
    callsMade,      \* thread -> calls started so far
    \* --- impression_tracker.RollingCMS, single-threaded ---
    im_buckets,     \* index -> [start_time, table]
    im_merged,      \* [start_time, table]
    imOp,           \* the last add: [item, ts, count]
    imCalls,        \* number of calls made so far (bounded by MaxCmsCalls)
    \* --- hashtag_tracker.RollingCMS and TrendingTracker, threads ---
    hc_buckets,     \* RollingCMS.buckets: bucket index -> table, present keys only
    hc_merged,      \* RollingCMS.merged.table
    htPc,           \* thread -> position in its call
    htLocal,        \* thread -> the call's arguments and local variables
    htCalls,        \* thread -> calls started so far
    tt_current_time,        \* TrendingTracker.current_time
    hashtag_timestamps,     \* dict in insertion order: <<[key, timestamps], ...>>
    top_k_global_heap,      \* heapdict: hashtag -> count, present keys only
    tt_global_lock,         \* TrendingTracker.global_lock: holder thread or 0
    posts_since_cleanup,
    ttMaxTs,        \* the largest timestamp passed to record_post so far
    \* --- event_tracker.EventTracker, single-threaded ---
    ev_events,      \* events: event id -> NoEvent | [user_id, event_type, timestamp]
    ev_users,       \* users: user id -> set of event ids, present keys only
    event_type_rbs, \* event type -> ring, present keys only
    event_type_user_event_counts,   \* event type -> (user id -> count), present keys
    event_types,
    ev_current_time,
    evCalls,        \* number of calls made so far (bounded by MaxEvCalls)
    evOp,           \* the last call: [kind, id, result]
    \* --- impression_tracker.ImpressionTracker, single-threaded ---
    it_config,      \* [window_seconds, bucket_size]; NoConfig before the constructor
    ad_cms,         \* RollingCMS: [buckets, merged]
    region_cms,     \* region -> RollingCMS, present keys only
    region_ads,     \* region -> set of ad ids, present keys only
    it_ads,         \* ImpressionTracker.ads
    it_current_time,
    itRecorded,     \* <<ad, timestamp>> -> number of record_impression calls
    itLate,         \* some call had timestamp < current_time - window_seconds
    itOp,           \* the last call: [kind, ad, ts, late]
    itCalls,        \* number of calls made so far (bounded by MaxItCalls)
    \* --- carpark.CarparkTracker, single-threaded ---
    lot_occupancy,          \* lot id -> set of car ids, present keys only
    enter_time_buckets,     \* lot id -> ring
    exit_time_buckets,      \* lot id -> ring
    occupancy_snapshots,    \* lot id -> <<<<timestamp, occupancy>>, ...>>, present keys
    cp_current_time,
    cpOp,           \* the last call: [lot, car, type, ts, now, applied], now = the
                    \* time before, applied = _record_occupancy returned True
    cpDropped,      \* some call arrived at current_time - max_delay - 1
    cpCalls,        \* number of calls made so far (bounded by MaxCpCalls)
    \* --- warehouse.InventorySystem ---
    item_warehouse_stocks,      \* item id -> (warehouse id -> count), present keys
    item_transfers,             \* item id -> count, present keys only
    item_latest_ops,            \* item id -> <<[timestamp, op, warehouse_ids, quantity]>>
    warehouse_stock_movement,   \* warehouse id -> count, present keys only
    request_cache,              \* stripe -> <<key, ...>>, oldest first (OrderedDict)
    item_warehouse_locks,       \* stripe -> [owner, depth] (RLock; owner 0 = free)
    item_locks,                 \* stripe -> owner (Lock; 0 = free)
    analytics_lock,             \* owner (Lock; 0 = free)
    whPc,           \* thread -> the statement it is at, "idle" between calls
    whCall,         \* thread -> [op, item, quantity, from, to, ts] of its call
    whResult,       \* thread -> what its last finished call returned
    whOp,           \* the last single-threaded call, with hit and result
    whKeys,         \* the idempotency keys submitted so far
    whDuplicate,    \* some call reused an idempotency key
    whEvicted,      \* the keys that _dedup_request has evicted
    whApplied,      \* key -> number of times a request with it changed the stock
    whAdded,        \* item id -> total quantity of the add_stock calls that applied
    whRemoved,      \* item id -> total quantity of the remove_stock calls that applied
    whCalls,        \* number of calls started so far (bounded by MaxWhCalls)
    \* --- the bounded top-K heaps, each key -> score, present keys only ---
    tkClass,        \* the class that was constructed, "none" before
    tk_top_k_global_heap,   \* TrendingTracker.top_k_global_heap
    tk_global_heap,         \* OrderBook.global_heap
    top_k_drivers,          \* RideSharingAnalytics.top_k_drivers
    top_k_doctors,          \* HospitalSystem.top_k_doctors
    top_k_hospitals,        \* HospitalSystem.top_k_hospitals
    tkOp,           \* the last update: [heap, key, score, tracked, full], tracked
                    \* and full as they were before it
    tkCalls,        \* number of updates made so far (bounded by MaxTopKCalls)
    tkOffered,      \* the keys offered to the heap so far
    tkQuery,        \* the last top-K query: [heap, k, result]
    \* --- orderbook.OrderBook with the history of its last call ---
    bkBefore,       \* what the last call found: [totals, fresh]
    \* --- threads inside carpark.CarparkTracker.record_event ---
    cptPc,          \* thread -> the statement it is at, "idle" between calls
    cptCall,        \* thread -> [lot, car, type, ts] of its call
    cptCalls,       \* thread -> calls started so far
    cptFound,       \* thread -> what _record_occupancy found: [full, inside]
    cptNet,         \* lot -> car -> applied ENTERs minus applied EXITs
    \* --- carpark.CarparkTracker with one lot "A", bucket 10, capacity 100 ---
    rateTracker,    \* [known, lot, enter, exit, snapshots, current_time]
    rateLog,        \* [enters95, others]: applied ENTERs at 95, other calls
    rateQuery,      \* the last get_occupancy_rate_rb: [last_t, samples, log]
    \* --- visit_tracker.VisitTracker, single-threaded ---
    vt_buckets,     \* RollingHLL.buckets: bucket index -> set of users, present keys
    vt_current_time,
    events_since_cleanup,
    vtVisits,       \* the <<user_id, timestamp>> pairs recorded so far
    vtQuery,        \* the last query: [t, now, result]
    vtCalls,        \* number of calls made so far (bounded by MaxVtCalls)
    \* --- hashtag_tracker.TrendingTracker, single-threaded ---
    tw_current_time,
    tw_hashtag_timestamps,  \* dict in insertion order: hashtag -> timestamps
    tw_top_k_global_heap,
    tw_posts_since_cleanup,
    tw_buckets,     \* rolling_cms.buckets
    tw_merged,      \* rolling_cms.merged
    twPosts,        \* the <<hashtag, timestamp>> posts recorded so far, in order
    twQuery,        \* the last windowed query and what it returned
    twCalls,        \* number of calls made so far (bounded by MaxTwCalls)
    \* --- CountMinSketch.minus / CountMinSketch.subtract on two given tables ---
    smOp,           \* the last call: [class, table, other, result]
    \* --- ride_sharing.RideSharingAnalytics, called from threads ---
    active_rides,   \* the active-ride shards: ride_id -> [driver_id, city]
    driver_stats,   \* the driver shards: driver_id -> stats, present keys
    city_stats,     \* the city shards: city -> stats, present keys
    total_city_stats,
    rd_top_k_drivers,
    rdPc,           \* per thread: the block its call runs next
    rdCall,         \* per thread: the call's arguments and locals
    rdCalls,        \* per thread: calls made so far
    rdEffects,      \* per ride: calls that passed the check in their first block
    rdKm,           \* the distance of the end_ride calls that passed the check
    \* --- impression_tracker.RollingCMS.add, called from threads ---
    ic_buckets,     \* RollingCMS.buckets: index -> [start_time, table]
    ic_merged,      \* RollingCMS.merged
    icPc,           \* per thread: the step its add runs next
    icCall,         \* per thread: the add's arguments
    icCalls,        \* per thread: calls made so far
    icNote,         \* [subtracted, cleared, dropped]: merged.minus calls, buckets
                    \* cleared of an era that was not 0, adds a bucket dropped
    \* --- hospital.HospitalSystem, single-threaded ---
    patients,       \* dict patient_id -> Patient
    hospital_occupied_beds, \* dict hospital -> set of bed ids
    total_occupied_beds,
    hospital_stats, \* defaultdict hospital -> counters
    doctor_stats,   \* defaultdict doctor_id -> counters
    hs_top_k_doctors,
    hs_top_k_hospitals,
    hsLast,         \* the last call and its arguments
    hsRejected,     \* number of calls that returned early
    hsCalls         \* number of calls made so far (bounded by MaxHsCalls)

seqRingVars == <<etRing, cpRing, ringOp, ringLive, ringCalls>>
addVars == <<addPc, addArg, addCalls, addSum>>
bookVars == <<storage, price_buckets, current_time, global_heap, bookOp,
              bookMaxTs, bookCalls>>

bookCoreVars == <<storage, price_buckets, current_time, global_heap>>
bookSeqVars == <<bookOp, bookMaxTs, bookCalls>>
lockVars == <<price_stripe, price_lock, callPc, call, callsMade>>

imVars == <<im_buckets, im_merged, imOp, imCalls>>

hcVars == <<hc_buckets, hc_merged, htPc, htLocal, htCalls>>

ttVars == <<tt_current_time, hashtag_timestamps, top_k_global_heap, tt_global_lock,
            posts_since_cleanup, ttMaxTs>>

evVars == <<ev_events, ev_users, event_type_rbs, event_type_user_event_counts,
            event_types, ev_current_time, evCalls, evOp>>

\* the rings, the order book, the hashtag sketch and the trending tracker
baseVars == <<obRing, seqRingVars, addVars, bookVars, lockVars, hcVars, ttVars>>

\* the subsystems added after the rings, the order book and the sketches
itVars == <<it_config, ad_cms, region_cms, region_ads, it_ads, it_current_time,
            itRecorded, itLate, itOp, itCalls>>

cpVars == <<lot_occupancy, enter_time_buckets, exit_time_buckets,
            occupancy_snapshots, cp_current_time, cpOp, cpDropped, cpCalls>>

whDataVars == <<item_warehouse_stocks, item_transfers, item_latest_ops,
                warehouse_stock_movement, request_cache>>
whLockVars == <<item_warehouse_locks, item_locks, analytics_lock>>
whThreadVars == <<whPc, whCall, whResult>>
whGhostVars == <<whKeys, whDuplicate, whEvicted, whApplied, whAdded, whRemoved>>
whVars == <<whDataVars, whLockVars, whThreadVars, whGhostVars, whOp, whCalls>>

tkVars == <<tkClass, tk_top_k_global_heap, tk_global_heap, top_k_drivers, top_k_doctors,
            top_k_hospitals, tkOp, tkCalls, tkOffered, tkQuery>>

bhVars == <<bkBefore>>

\* the variables of the later sections
cptVars == <<cptPc, cptCall, cptCalls, cptFound, cptNet>>

rateVars == <<rateTracker, rateLog, rateQuery>>

vtVars == <<vt_buckets, vt_current_time, events_since_cleanup, vtVisits, vtQuery,
            vtCalls>>

twVars == <<tw_current_time, tw_hashtag_timestamps, tw_top_k_global_heap,
            tw_posts_since_cleanup, tw_buckets, tw_merged, twPosts, twQuery, twCalls>>

smVars == <<smOp>>

rdVars == <<active_rides, driver_stats, city_stats, total_city_stats, rd_top_k_drivers,
            rdPc, rdCall, rdCalls, rdEffects, rdKm>>

\* the variables of the last sections
icVars == <<ic_buckets, ic_merged, icPc, icCall, icCalls, icNote>>

hsVars == <<patients, hospital_occupied_beds, total_occupied_beds, hospital_stats,
            doctor_stats, hs_top_k_doctors, hs_top_k_hospitals, hsLast, hsRejected, hsCalls>>

lastVars == <<rdVars, icVars, hsVars>>

moreVars == <<bhVars, cptVars, rateVars, vtVars, twVars, smVars, lastVars>>

\* everything but the last sections
earlierVars == <<obRing, seqRingVars, addVars, bookVars, lockVars, imVars, hcVars,
                 ttVars, evVars, itVars, cpVars, whVars, tkVars, bhVars, cptVars,
                 rateVars, vtVars, twVars, smVars>>

restVars == <<evVars, itVars, cpVars, whVars, tkVars, moreVars>>

vars == <<obRing, seqRingVars, addVars, bookVars, lockVars, imVars, hcVars, ttVars,
          restVars>>

----------------------------------------------------------------------------
(* Model configuration.  The trackers take window_seconds and bucket_size  *)
(* as constructor arguments; the model runs them with a small window.      *)

BucketSize == 2
WindowSeconds == 4
MaxTs == 5
MaxCount == 2
MaxRingCalls == 4
NumThreads == 2
MaxAddsPerThread == 2
NumOrders == 2
MaxBookCalls == 3
NumLocks == 2
MaxCallsPerThread == 2
MaxLockTs == 0
MaxLockCount == 1
CmsWidth == 2
CmsDepth == 2
NumItems == 2
MaxCmsTs == 9
MaxCmsCalls == 3
MaxHtTick == 2
MaxHtCallsPerThread == 2
MaxPostsPerThread == 1
TT_CleanEvery == 1
TT_K == 1
NumEvents == 2
NumUsers == 2
NumEventTypes == 2
MaxEvCalls == 3
NumRegions == 1
MaxItCalls == 3
NumLots == 1
NumCars == 2
LotCapacity == 1
MaxDelay == 1
MaxCpTs == 2
MaxCpCalls == 3
\* InventorySystem (Threads and NumLocks are shared with the order book)
NumInvItems == 1
NumWarehouses == 3
MaxQuantity == 1
MaxInvTs == 1
OpsMaxLen == 3
MaxRequestsPerCache == 2
MaxWhCalls == 3
MaxWhFairCalls == 2
\* the top-K heaps (top_k_default is TopKDefault)
NumTopKeys == 3
MaxScore == 2
TopKDefault == 2
MaxTopKCalls == 3
\* the order book with its call history
MaxHistoryCalls == 4
\* threads inside CarparkTracker.record_event
MaxCpCallsPerThread == 2
\* the rolling occupancy rate of one lot
NumRateCars == 5
MaxRateCalls == 5
\* VisitTracker (cleanup_threshold is CleanupThreshold)
MaxVtTs == 8
CleanupThreshold == 2
MaxVtCalls == 4
\* TrendingTracker, single-threaded: timestamps are multiples of TwStep
TwStep == 5
MaxTwTick == 3
MaxTwCalls == 4
\* the largest cell of the tables handed to minus / subtract
MaxCellValue == 1
\* RideSharingAnalytics (top_k_default is TopKDefault)
NumRides == 2
NumDrivers == 2
NumCities == 2
MaxDistance == 1
MaxRideCallsPerThread == 2
\* the rings over several turns: timestamps are BucketSize * (0..MaxEra)
MaxEra == 4
\* RollingCMS.add from threads
MaxIcCallsPerThread == 2
\* update_order from threads: the updates' timestamps are 1..MaxUpdateTs
MaxUpdateTs == 1
\* HospitalSystem: patients, hospitals, beds per hospital, doctors, times, calls
NumPatients == 2
NumHospitals == 2
NumBeds == 2
NumDoctors == 1
MaxHsTime == 1
MaxHsCalls == 6
\* get_occupancy_rate_rb samples: cars and record_event calls
NumSampleCars == 8
MaxSampleCalls == 10

Threads == 1..NumThreads

Timestamps == 0..MaxTs
Counts == 1..MaxCount

Max2(a, b) == IF a >= b THEN a ELSE b

----------------------------------------------------------------------------
(* RingBuffer geometry.                                                    *)

\* orderbook.py RingBuffer.__init__: num_buckets = window_seconds // bucket_size
OB_NumBuckets == WindowSeconds \div BucketSize

\* event_tracker.py RingBuffer.__init__: (window_seconds // bucket_size) + 1
ET_NumBuckets == (WindowSeconds \div BucketSize) + 1

\* carpark.py RingBuffer.__init__: window_seconds // bucket_size + 1
CP_NumBuckets == WindowSeconds \div BucketSize + 1

\* _get_bucket_start_time / _get_start_time, the same in the three files
GetBucketStartTime(timestamp) == (timestamp \div BucketSize) * BucketSize

OB_GetBucketIndex(timestamp) == (timestamp \div BucketSize) % OB_NumBuckets
ET_GetBucketIndex(timestamp) == (timestamp \div BucketSize) % ET_NumBuckets
CP_GetBucketIndex(timestamp) == (timestamp \div BucketSize) % CP_NumBuckets

\* AtomicBucket.__init__ (all three): start_time = 0, quantity/count = 0
EmptyBucket == [start_time |-> 0, quantity |-> 0]

OB_NewRing == [i \in 0..(OB_NumBuckets - 1) |-> EmptyBucket]
ET_NewRing == [i \in 0..(ET_NumBuckets - 1) |-> EmptyBucket]
CP_NewRing == [i \in 0..(CP_NumBuckets - 1) |-> EmptyBucket]

----------------------------------------------------------------------------
(* orderbook.py AtomicBucket and RingBuffer, as functions of the bucket.   *)

OB_ResetAndAdd(bucket, start_time, quantity) ==
    [start_time |-> start_time, quantity |-> quantity]

\* the bucket after add_if_same_time; OB_IsSameTime is its return value
OB_IsSameTime(bucket, start_time) == bucket.start_time = start_time

OB_AddIfSameTime(bucket, start_time, quantity) ==
    IF bucket.start_time = start_time
    THEN [bucket EXCEPT !.quantity = @ + quantity]
    ELSE bucket

OB_SubtractIfSameTime(bucket, start_time, quantity) ==
    IF bucket.start_time = start_time
    THEN [bucket EXCEPT !.quantity = @ - quantity]
    ELSE bucket

\* RingBuffer.add run by one thread without interruption
OB_RingAdd(ring, timestamp, count) ==
    LET index == OB_GetBucketIndex(timestamp)
        bucket_start_time == GetBucketStartTime(timestamp)
        bucket == ring[index]
    IN  IF OB_IsSameTime(bucket, bucket_start_time)
        THEN [ring EXCEPT ![index] = OB_AddIfSameTime(bucket, bucket_start_time, count)]
        ELSE [ring EXCEPT ![index] = OB_ResetAndAdd(bucket, bucket_start_time, count)]

OB_RingMinus(ring, timestamp, count) ==
    LET index == OB_GetBucketIndex(timestamp)
        bucket_start_time == GetBucketStartTime(timestamp)
    IN  [ring EXCEPT ![index] = OB_SubtractIfSameTime(@, bucket_start_time, count)]

RECURSIVE SumPositive(_, _)
SumPositive(ring, n) ==
    IF n = 0 THEN 0
    ELSE SumPositive(ring, n - 1)
         + (IF ring[n - 1].quantity > 0 THEN ring[n - 1].quantity ELSE 0)

\* RingBuffer.total: the sum of the positive quantities
OB_Total(ring) == SumPositive(ring, OB_NumBuckets)

----------------------------------------------------------------------------
(* event_tracker.py AtomicBucket and RingBuffer.                           *)

\* AtomicBucket.add that keeps the old count when the era is newer
ET_BucketAddAppend(bucket, start_time, count) ==
    IF start_time < bucket.start_time THEN bucket
    ELSE [start_time |-> start_time, quantity |-> bucket.quantity + count]

\* AtomicBucket.add
ET_BucketAdd(bucket, start_time, count) ==
    IF start_time < bucket.start_time THEN bucket
    ELSE IF start_time > bucket.start_time
         THEN [start_time |-> start_time, quantity |-> count]
         ELSE [bucket EXCEPT !.quantity = @ + count]

ET_BucketMinus(bucket, start_time, count) ==
    IF start_time < bucket.start_time THEN bucket
    ELSE IF start_time = bucket.start_time
         THEN [bucket EXCEPT !.quantity = Max2(@ - count, 0)]
         ELSE bucket

ET_RingAdd(ring, timestamp, count) ==
    [ring EXCEPT ![ET_GetBucketIndex(timestamp)] =
        ET_BucketAdd(@, GetBucketStartTime(timestamp), count)]

ET_RingMinus(ring, timestamp, count) ==
    [ring EXCEPT ![ET_GetBucketIndex(timestamp)] =
        ET_BucketMinus(@, GetBucketStartTime(timestamp), count)]

----------------------------------------------------------------------------
(* carpark.py AtomicBucket and RingBuffer (no minus).                      *)

CP_BucketAdd(bucket, start_time, quantity) ==
    IF start_time = bucket.start_time
    THEN [bucket EXCEPT !.quantity = @ + quantity]
    ELSE IF start_time > bucket.start_time
         THEN [start_time |-> start_time, quantity |-> quantity]
         ELSE bucket

CP_RingAdd(ring, timestamp, quantity) ==
    [ring EXCEPT ![CP_GetBucketIndex(timestamp)] =
        CP_BucketAdd(@, GetBucketStartTime(timestamp), quantity)]

----------------------------------------------------------------------------
(* Specification SpecRing: single-threaded calls on one ring of each kind. *)

\* The facades call minus only to take back an add they made earlier with the
\* same timestamp and count (cancel_order / update_order, delete_event).
NoRingOp == [impl |-> "none", kind |-> "none", ts |-> 0, count |-> 0]

SeqRingFrame ==
    UNCHANGED <<addVars, bookVars, lockVars, imVars, hcVars, ttVars, restVars>>

RingInit ==
    /\ obRing = OB_NewRing
    /\ etRing = ET_NewRing
    /\ cpRing = CP_NewRing
    /\ ringOp = NoRingOp
    /\ ringLive = EmptyBag
    /\ ringCalls = 0

OBRingAddCall ==
    \E ts \in Timestamps, c \in Counts :
        /\ ringCalls < MaxRingCalls
        /\ obRing' = OB_RingAdd(obRing, ts, c)
        /\ ringOp' = [impl |-> "ob", kind |-> "add", ts |-> ts, count |-> c]
        /\ ringLive' = ringLive (+) SetToBag({<<"ob", ts, c>>})
        /\ ringCalls' = ringCalls + 1
        /\ UNCHANGED <<etRing, cpRing>>
        /\ SeqRingFrame

OBRingMinusCall ==
    \E ts \in Timestamps, c \in Counts :
        /\ ringCalls < MaxRingCalls
        /\ BagIn(<<"ob", ts, c>>, ringLive)
        /\ obRing' = OB_RingMinus(obRing, ts, c)
        /\ ringOp' = [impl |-> "ob", kind |-> "minus", ts |-> ts, count |-> c]
        /\ ringLive' = ringLive (-) SetToBag({<<"ob", ts, c>>})
        /\ ringCalls' = ringCalls + 1
        /\ UNCHANGED <<etRing, cpRing>>
        /\ SeqRingFrame

ETRingAddCall ==
    \E ts \in Timestamps, c \in Counts :
        /\ ringCalls < MaxRingCalls
        /\ etRing' = ET_RingAdd(etRing, ts, c)
        /\ ringOp' = [impl |-> "et", kind |-> "add", ts |-> ts, count |-> c]
        /\ ringLive' = ringLive (+) SetToBag({<<"et", ts, c>>})
        /\ ringCalls' = ringCalls + 1
        /\ UNCHANGED <<obRing, cpRing>>
        /\ SeqRingFrame

ETRingMinusCall ==
    \E ts \in Timestamps, c \in Counts :
        /\ ringCalls < MaxRingCalls
        /\ BagIn(<<"et", ts, c>>, ringLive)
        /\ etRing' = ET_RingMinus(etRing, ts, c)
        /\ ringOp' = [impl |-> "et", kind |-> "minus", ts |-> ts, count |-> c]
        /\ ringLive' = ringLive (-) SetToBag({<<"et", ts, c>>})
        /\ ringCalls' = ringCalls + 1
        /\ UNCHANGED <<obRing, cpRing>>
        /\ SeqRingFrame

CPRingAddCall ==
    \E ts \in Timestamps, c \in Counts :
        /\ ringCalls < MaxRingCalls
        /\ cpRing' = CP_RingAdd(cpRing, ts, c)
        /\ ringOp' = [impl |-> "cp", kind |-> "add", ts |-> ts, count |-> c]
        /\ ringCalls' = ringCalls + 1
        /\ UNCHANGED <<obRing, etRing, ringLive>>
        /\ SeqRingFrame

\* Specification SpecRingEras: the event tracker's and the carpark's ring
\* over more than one turn of the ring.
EraTimestamps == {BucketSize * k : k \in 0..MaxEra}

EraETRingAddCall ==
    \E ts \in EraTimestamps, c \in Counts :
        /\ ringCalls < MaxRingCalls
        /\ etRing' = ET_RingAdd(etRing, ts, c)
        /\ ringOp' = [impl |-> "et", kind |-> "add", ts |-> ts, count |-> c]
        /\ ringLive' = ringLive (+) SetToBag({<<"et", ts, c>>})
        /\ ringCalls' = ringCalls + 1
        /\ UNCHANGED <<obRing, cpRing>>
        /\ SeqRingFrame

EraETRingMinusCall ==
    \E ts \in EraTimestamps, c \in Counts :
        /\ ringCalls < MaxRingCalls
        /\ BagIn(<<"et", ts, c>>, ringLive)
        /\ etRing' = ET_RingMinus(etRing, ts, c)
        /\ ringOp' = [impl |-> "et", kind |-> "minus", ts |-> ts, count |-> c]
        /\ ringLive' = ringLive (-) SetToBag({<<"et", ts, c>>})
        /\ ringCalls' = ringCalls + 1
        /\ UNCHANGED <<obRing, cpRing>>
        /\ SeqRingFrame

EraCPRingAddCall ==
    \E ts \in EraTimestamps, c \in Counts :
        /\ ringCalls < MaxRingCalls
        /\ cpRing' = CP_RingAdd(cpRing, ts, c)
        /\ ringOp' = [impl |-> "cp", kind |-> "add", ts |-> ts, count |-> c]
        /\ ringLive' = ringLive (+) SetToBag({<<"cp", ts, c>>})
        /\ ringCalls' = ringCalls + 1
        /\ UNCHANGED <<obRing, etRing>>
        /\ SeqRingFrame

RingErasNext == EraETRingAddCall \/ EraETRingMinusCall \/ EraCPRingAddCall

RingNext ==
    \/ OBRingAddCall
    \/ OBRingMinusCall
    \/ ETRingAddCall
    \/ ETRingMinusCall
    \/ CPRingAddCall

----------------------------------------------------------------------------
(* Specification SpecRingAdd: threads calling orderbook.RingBuffer.add on  *)
(* one ring.  add_if_same_time and reset_and_add each run under the        *)
(* bucket's lock; the lock is released between the two.                    *)

\* Timestamps of one window, one ring slot per era (test_ringbuffer_concurrency
\* spreads its timestamps over the num_buckets slots in the same way).
OneWindowTimestamps ==
    WindowSeconds..(WindowSeconds + OB_NumBuckets * BucketSize - 1)

AddInit ==
    /\ addPc = [t \in Threads |-> "idle"]
    /\ addArg = [t \in Threads |-> [ts |-> 0, count |-> 0]]
    /\ addCalls = [t \in Threads |-> 0]
    /\ addSum = 0

\* a thread enters RingBuffer.add(timestamp, count)
AddCall(t) ==
    \E ts \in OneWindowTimestamps, c \in Counts :
        /\ addPc[t] = "idle"
        /\ addCalls[t] < MaxAddsPerThread
        /\ addPc' = [addPc EXCEPT ![t] = "try"]
        /\ addArg' = [addArg EXCEPT ![t] = [ts |-> ts, count |-> c]]
        /\ addCalls' = [addCalls EXCEPT ![t] = @ + 1]
        /\ addSum' = addSum + c
        /\ UNCHANGED <<obRing, seqRingVars, bookVars, lockVars, imVars, hcVars, ttVars,
                       restVars>>

\* bucket.add_if_same_time(bucket_start_time, count); True ends the call
AddTrySameTime(t) ==
    LET index == OB_GetBucketIndex(addArg[t].ts)
        bucket_start_time == GetBucketStartTime(addArg[t].ts)
    IN  /\ addPc[t] = "try"
        /\ obRing' = [obRing EXCEPT ![index] =
                        OB_AddIfSameTime(@, bucket_start_time, addArg[t].count)]
        /\ addPc' = [addPc EXCEPT ![t] =
                        IF OB_IsSameTime(obRing[index], bucket_start_time)
                        THEN "idle" ELSE "reset"]
        /\ UNCHANGED <<addArg, addCalls, addSum, seqRingVars, bookVars, lockVars, imVars,
                       hcVars, ttVars, restVars>>

\* bucket.reset_and_add(bucket_start_time, count), then the call returns
AddReset(t) ==
    LET index == OB_GetBucketIndex(addArg[t].ts)
        bucket_start_time == GetBucketStartTime(addArg[t].ts)
    IN  /\ addPc[t] = "reset"
        /\ obRing' = [obRing EXCEPT ![index] =
                        OB_ResetAndAdd(@, bucket_start_time, addArg[t].count)]
        /\ addPc' = [addPc EXCEPT ![t] = "idle"]
        /\ UNCHANGED <<addArg, addCalls, addSum, seqRingVars, bookVars, lockVars, imVars,
                       hcVars, ttVars, restVars>>

RingAddNext ==
    \/ \E t \in Threads : AddCall(t)
    \/ \E t \in Threads : AddTrySameTime(t)
    \/ \E t \in Threads : AddReset(t)

----------------------------------------------------------------------------
(* orderbook.py OrderBook.  Prices are given in thousandths (100.504 is     *)
(* 100504) and rounded prices in hundredths, as _round_price quantizes to   *)
(* Decimal("0.00") with the decimal module's ROUND_HALF_EVEN.               *)

K == 2

OrderIds == 1..NumOrders
PriceInputs == {1004, 1995, 3000}

\* OrderBook._round_price / format_price
RoundPrice(price) ==
    LET cents == price \div 10
        rest  == price % 10
    IN  IF rest > 5 \/ (rest = 5 /\ cents % 2 = 1) THEN cents + 1 ELSE cents

RoundedPrices == {RoundPrice(p) : p \in PriceInputs}

NoOrder == [rounded_price |-> 0, quantity |-> 0, timestamp |-> -1]

\* heapdict.peekitem: the entry with the lowest (priority, key)
HeapMinKey(heap) ==
    CHOOSE k \in DOMAIN heap :
        \A j \in DOMAIN heap :
            \/ heap[k] < heap[j]
            \/ (heap[k] = heap[j] /\ k <= j)

HeapSet(heap, key, count) ==
    [k \in (DOMAIN heap) \cup {key} |-> IF k = key THEN count ELSE heap[k]]

HeapDel(heap, key) == [k \in (DOMAIN heap) \ {key} |-> heap[k]]

\* OrderBook._update_global_heap
UpdateGlobalHeap(heap, rounded_price, count) ==
    IF rounded_price \in DOMAIN heap
    THEN IF count <= 0 THEN HeapDel(heap, rounded_price)
         ELSE HeapSet(heap, rounded_price, count)
    ELSE IF Cardinality(DOMAIN heap) < K
         THEN HeapSet(heap, rounded_price, count)
         ELSE LET lowest == HeapMinKey(heap)
              IN  IF count > heap[lowest]
                  THEN HeapSet(HeapDel(heap, lowest), rounded_price, count)
                  ELSE heap

BookInit ==
    /\ storage = [o \in OrderIds |-> NoOrder]
    /\ price_buckets = [p \in RoundedPrices |-> OB_NewRing]
    /\ current_time = 0
    /\ global_heap = << >>
    /\ bookOp = [kind |-> "none", id |-> 0, ts |-> 0, applied |-> FALSE]
    /\ bookMaxTs = 0
    /\ bookCalls = 0

BookFrame ==
    UNCHANGED <<obRing, seqRingVars, addVars, lockVars, imVars, hcVars, ttVars,
                restVars>>

\* OrderBook.record_order
RecordOrder(order_id, price, quantity, timestamp) ==
    LET rounded_price == RoundPrice(price)
        ring  == OB_RingAdd(price_buckets[rounded_price], timestamp, quantity)
        count == OB_Total(ring)
    IN  /\ current_time' = Max2(current_time, timestamp)
        /\ storage' = [storage EXCEPT ![order_id] =
                          [rounded_price |-> rounded_price,
                           quantity |-> quantity, timestamp |-> timestamp]]
        /\ price_buckets' = [price_buckets EXCEPT ![rounded_price] = ring]
        /\ global_heap' = UpdateGlobalHeap(global_heap, rounded_price, count)
        /\ bookOp' = [kind |-> "record", id |-> order_id, ts |-> timestamp,
                      applied |-> TRUE]
        /\ bookMaxTs' = Max2(bookMaxTs, timestamp)

\* OrderBook.update_order
UpdateOrder(order_id, new_price, new_quantity, timestamp) ==
    LET order == storage[order_id]
        dropped == order = NoOrder \/ timestamp < order.timestamp
        new_rounded == RoundPrice(new_price)
        buckets1 == [price_buckets EXCEPT ![order.rounded_price] =
                        OB_RingMinus(@, order.timestamp, order.quantity)]
        heap1 == UpdateGlobalHeap(global_heap, order.rounded_price,
                                  OB_Total(buckets1[order.rounded_price]))
        buckets2 == [buckets1 EXCEPT ![new_rounded] =
                        OB_RingAdd(@, timestamp, new_quantity)]
        heap2 == UpdateGlobalHeap(heap1, new_rounded,
                                  OB_Total(buckets2[new_rounded]))
    IN  /\ bookOp' = [kind |-> "update", id |-> order_id, ts |-> timestamp,
                      applied |-> ~dropped]
        /\ IF dropped
           THEN UNCHANGED <<storage, price_buckets, global_heap, bookMaxTs>>
           ELSE /\ storage' = [storage EXCEPT ![order_id] =
                                  [rounded_price |-> new_rounded,
                                   quantity |-> new_quantity,
                                   timestamp |-> timestamp]]
                /\ price_buckets' = buckets2
                /\ global_heap' = heap2
                /\ bookMaxTs' = Max2(bookMaxTs, timestamp)
        /\ UNCHANGED current_time

\* OrderBook.cancel_order
CancelOrder(order_id, timestamp) ==
    LET order == storage[order_id]
        dropped == order = NoOrder \/ timestamp < order.timestamp
        buckets1 == [price_buckets EXCEPT ![order.rounded_price] =
                        OB_RingMinus(@, order.timestamp, order.quantity)]
    IN  /\ bookOp' = [kind |-> "cancel", id |-> order_id, ts |-> timestamp,
                      applied |-> ~dropped]
        /\ IF dropped
           THEN UNCHANGED <<storage, price_buckets, global_heap, bookMaxTs>>
           ELSE /\ storage' = [storage EXCEPT ![order_id] = NoOrder]
                /\ price_buckets' = buckets1
                /\ global_heap' =
                      UpdateGlobalHeap(global_heap, order.rounded_price,
                                       OB_Total(buckets1[order.rounded_price]))
                /\ bookMaxTs' = Max2(bookMaxTs, timestamp)
        /\ UNCHANGED current_time

RecordOrderCall ==
    \E o \in OrderIds, p \in PriceInputs, q \in Counts, ts \in Timestamps :
        /\ bookCalls < MaxBookCalls
        /\ RecordOrder(o, p, q, ts)
        /\ bookCalls' = bookCalls + 1
        /\ BookFrame

UpdateOrderCall ==
    \E o \in OrderIds, p \in PriceInputs, q \in Counts, ts \in Timestamps :
        /\ bookCalls < MaxBookCalls
        /\ UpdateOrder(o, p, q, ts)
        /\ bookCalls' = bookCalls + 1
        /\ BookFrame

CancelOrderCall ==
    \E o \in OrderIds, ts \in Timestamps :
        /\ bookCalls < MaxBookCalls
        /\ CancelOrder(o, ts)
        /\ bookCalls' = bookCalls + 1
        /\ BookFrame

BookNext ==
    \/ RecordOrderCall
    \/ UpdateOrderCall
    \/ CancelOrderCall

----------------------------------------------------------------------------
(* Specification SpecBookLocks: threads inside OrderBook.record_order and   *)
(* OrderBook.update_order.  Each `with lock:` block that takes no further   *)
(* lock is one step; the price locks of update_order are taken one by one.  *)
(* Every order id is recorded once, so storage[order_id] is the one Order   *)
(* object that the threads working on that id share.                        *)

Stripes == 0..(NumLocks - 1)
LockTimestamps == 0..MaxLockTs
LockCounts == 1..MaxLockCount

NoCall == [op |-> "none", id |-> 0, rounded_price |-> 0, quantity |-> 0,
           timestamp |-> 0, old_rounded_price |-> 0, old_quantity |-> 0,
           old_timestamp |-> 0, locks |-> << >>, count |-> 0]

FreeLock == [owner |-> 0, depth |-> 0]

\* threading.RLock.acquire succeeds for a free lock and for its owner
CanAcquire(lock, t) == lock.owner = 0 \/ lock.owner = t

Acquire(lock, t) == [owner |-> t, depth |-> lock.depth + 1]

Release(lock) ==
    IF lock.depth = 1 THEN FreeLock ELSE [lock EXCEPT !.depth = @ - 1]

\* sorted(set(prices))
RECURSIVE SortedSeq(_)
SortedSeq(S) ==
    IF S = {} THEN << >>
    ELSE LET least == CHOOSE x \in S : \A y \in S : x <= y
         IN  <<least>> \o SortedSeq(S \ {least})

\* OrderBook._acquire_price_locks_ordered: the locks, in the order taken
PriceLocksOrdered(stripe_of, p1, p2) ==
    LET sorted_prices == SortedSeq({p1, p2})
    IN  [i \in 1..Len(sorted_prices) |-> stripe_of[sorted_prices[i]]]

RECURSIVE ReleaseAll(_, _, _)
\* OrderBook._release_locks: release locks[n], ..., locks[1]
ReleaseAll(table, locks, n) ==
    IF n = 0 THEN table
    ELSE ReleaseAll([table EXCEPT ![locks[n]] = Release(@)], locks, n - 1)

\* before OrderBook.__init__ has fixed num_locks, no price has a stripe
NoStripes == [p \in RoundedPrices |-> NumLocks]

LocksInit ==
    /\ price_stripe = NoStripes
    /\ price_lock = [s \in Stripes |-> FreeLock]
    /\ callPc = [t \in Threads |-> "idle"]
    /\ call = [t \in Threads |-> NoCall]
    /\ callsMade = [t \in Threads |-> 0]

LocksFrame ==
    UNCHANGED <<obRing, seqRingVars, addVars, bookSeqVars, price_stripe, imVars,
                hcVars, ttVars, restVars>>

\* OrderBook.__init__: the locks are created; from then on _get_price_lock
\* sends every rounded price to one stripe, hash(rounded_price) % num_locks
BookConstruct ==
    /\ price_stripe = NoStripes
    /\ price_stripe' \in [RoundedPrices -> Stripes]
    /\ UNCHANGED <<obRing, seqRingVars, addVars, bookVars, price_lock, callPc, call,
                   callsMade, imVars, hcVars, ttVars, restVars>>

Recording(o) == \E u \in Threads : call[u].op = "record" /\ call[u].id = o

\* record_order, lines 224-231: build the Order, advance current_time
RecordStart(t) ==
    \E o \in OrderIds, p \in PriceInputs, q \in LockCounts, ts \in LockTimestamps :
        /\ callPc[t] = "idle"
        /\ price_stripe # NoStripes
        /\ callsMade[t] < MaxCallsPerThread
        /\ storage[o] = NoOrder /\ ~Recording(o)
        /\ current_time' = Max2(current_time, ts)
        /\ call' = [call EXCEPT ![t] =
                      [NoCall EXCEPT !.op = "record", !.id = o,
                                     !.rounded_price = RoundPrice(p),
                                     !.quantity = q, !.timestamp = ts]]
        /\ callPc' = [callPc EXCEPT ![t] = "record_store"]
        /\ callsMade' = [callsMade EXCEPT ![t] = @ + 1]
        /\ UNCHANGED <<storage, price_buckets, global_heap, price_lock>>
        /\ LocksFrame

\* record_order, lines 233-234
RecordStore(t) ==
    /\ callPc[t] = "record_store"
    /\ storage' = [storage EXCEPT ![call[t].id] =
                      [rounded_price |-> call[t].rounded_price,
                       quantity |-> call[t].quantity,
                       timestamp |-> call[t].timestamp]]
    /\ callPc' = [callPc EXCEPT ![t] = "record_add"]
    /\ UNCHANGED <<price_buckets, current_time, global_heap, price_lock, call,
                   callsMade>>
    /\ LocksFrame

\* record_order, lines 236-237: add under the price lock, keep the total
RecordAdd(t) ==
    LET rounded_price == call[t].rounded_price
        ring == OB_RingAdd(price_buckets[rounded_price], call[t].timestamp,
                           call[t].quantity)
    IN  /\ callPc[t] = "record_add"
        /\ CanAcquire(price_lock[price_stripe[rounded_price]], t)
        /\ price_buckets' = [price_buckets EXCEPT ![rounded_price] = ring]
        /\ call' = [call EXCEPT ![t].count = OB_Total(ring)]
        /\ callPc' = [callPc EXCEPT ![t] = "record_heap"]
        /\ UNCHANGED <<storage, current_time, global_heap, price_lock, callsMade>>
        /\ LocksFrame

\* record_order, line 239
RecordHeap(t) ==
    /\ callPc[t] = "record_heap"
    /\ global_heap' = UpdateGlobalHeap(global_heap, call[t].rounded_price,
                                       call[t].count)
    /\ callPc' = [callPc EXCEPT ![t] = "idle"]
    /\ call' = [call EXCEPT ![t] = NoCall]
    /\ UNCHANGED <<storage, price_buckets, current_time, price_lock, callsMade>>
    /\ LocksFrame

\* update_order, lines 242-257: the block under the order lock
UpdateStart(t) ==
    \E o \in OrderIds, p \in PriceInputs, q \in LockCounts, ts \in LockTimestamps :
        LET order == storage[o]
            dropped == order = NoOrder \/ ts < order.timestamp
        IN  /\ callPc[t] = "idle"
            /\ price_stripe # NoStripes
            /\ callsMade[t] < MaxCallsPerThread
            /\ callsMade' = [callsMade EXCEPT ![t] = @ + 1]
            /\ IF dropped
               THEN UNCHANGED <<storage, call, callPc>>
               ELSE /\ storage' = [storage EXCEPT ![o] =
                                      [rounded_price |-> RoundPrice(p),
                                       quantity |-> q, timestamp |-> ts]]
                    /\ call' = [call EXCEPT ![t] =
                                  [NoCall EXCEPT !.op = "update", !.id = o,
                                      !.quantity = q, !.timestamp = ts,
                                      !.old_rounded_price = order.rounded_price,
                                      !.old_quantity = order.quantity,
                                      !.old_timestamp = order.timestamp]]
                    /\ callPc' = [callPc EXCEPT ![t] = "update_sort"]
            /\ UNCHANGED <<price_buckets, current_time, global_heap, price_lock>>
            /\ LocksFrame

\* update_order, line 259 -> _acquire_price_locks_ordered, lines 188-189;
\* order.rounded_price is read from the shared Order
UpdateSortLocks(t) ==
    /\ callPc[t] = "update_sort"
    /\ call' = [call EXCEPT ![t].locks =
                  PriceLocksOrdered(price_stripe, call[t].old_rounded_price,
                                    storage[call[t].id].rounded_price)]
    /\ callPc' = [callPc EXCEPT ![t] = "update_acquire"]
    /\ UNCHANGED <<bookCoreVars, price_lock, callsMade>>
    /\ LocksFrame

\* _acquire_price_locks_ordered, lines 191-192: one lock.acquire()
UpdateAcquire(t) ==
    LET next == call[t].locks[call[t].count + 1]
    IN  /\ callPc[t] = "update_acquire"
        /\ call[t].count < Len(call[t].locks)
        /\ CanAcquire(price_lock[next], t)
        /\ price_lock' = [price_lock EXCEPT ![next] = Acquire(@, t)]
        /\ call' = [call EXCEPT ![t].count = @ + 1]
        /\ callPc' = [callPc EXCEPT ![t] =
                        IF call[t].count + 1 = Len(call[t].locks)
                        THEN "update_minus" ELSE "update_acquire"]
        /\ UNCHANGED <<bookCoreVars, callsMade>>
        /\ LocksFrame

\* update_order, lines 261-262
UpdateMinus(t) ==
    LET old == call[t].old_rounded_price
        ring == OB_RingMinus(price_buckets[old], call[t].old_timestamp,
                             call[t].old_quantity)
    IN  /\ callPc[t] = "update_minus"
        /\ price_buckets' = [price_buckets EXCEPT ![old] = ring]
        /\ global_heap' = UpdateGlobalHeap(global_heap, old, OB_Total(ring))
        /\ callPc' = [callPc EXCEPT ![t] = "update_add"]
        /\ UNCHANGED <<storage, current_time, price_lock, call, callsMade>>
        /\ LocksFrame

\* update_order, lines 264-267; order.rounded_price is read from the shared
\* Order, then _release_locks
UpdateAddRelease(t) ==
    LET new == storage[call[t].id].rounded_price
        ring == OB_RingAdd(price_buckets[new], call[t].timestamp,
                           call[t].quantity)
    IN  /\ callPc[t] = "update_add"
        /\ price_buckets' = [price_buckets EXCEPT ![new] = ring]
        /\ global_heap' = UpdateGlobalHeap(global_heap, new, OB_Total(ring))
        /\ price_lock' = ReleaseAll(price_lock, call[t].locks, Len(call[t].locks))
        /\ callPc' = [callPc EXCEPT ![t] = "idle"]
        /\ call' = [call EXCEPT ![t] = NoCall]
        /\ UNCHANGED <<storage, current_time, callsMade>>
        /\ LocksFrame

\* Specification SpecBookUpdates: one order recorded at timestamp 0, then
\* update_order calls on it from threads with later timestamps.
UpdateTimestamps == 1..MaxUpdateTs

\* the order id every call of SpecBookUpdates names
TheOrder == CHOOSE o \in OrderIds : \A u \in OrderIds : o <= u

\* record_order, lines 224-231, for the order at timestamp 0
UoRecordStart(t) ==
    \E p \in PriceInputs, q \in LockCounts :
        /\ callPc[t] = "idle"
        /\ price_stripe # NoStripes
        /\ callsMade[t] < MaxCallsPerThread
        /\ storage[TheOrder] = NoOrder /\ ~Recording(TheOrder)
        /\ current_time' = Max2(current_time, 0)
        /\ call' = [call EXCEPT ![t] =
                      [NoCall EXCEPT !.op = "record", !.id = TheOrder,
                                     !.rounded_price = RoundPrice(p),
                                     !.quantity = q, !.timestamp = 0]]
        /\ callPc' = [callPc EXCEPT ![t] = "record_store"]
        /\ callsMade' = [callsMade EXCEPT ![t] = @ + 1]
        /\ UNCHANGED <<storage, price_buckets, global_heap, price_lock>>
        /\ LocksFrame

\* update_order, lines 242-257, once record_order has returned
UoUpdateStart(t) ==
    \E p \in PriceInputs, q \in LockCounts, ts \in UpdateTimestamps :
        LET order == storage[TheOrder]
            dropped == order = NoOrder \/ ts < order.timestamp
        IN  /\ callPc[t] = "idle"
            /\ price_stripe # NoStripes
            /\ ~Recording(TheOrder)
            /\ callsMade[t] < MaxCallsPerThread
            /\ callsMade' = [callsMade EXCEPT ![t] = @ + 1]
            /\ IF dropped
               THEN UNCHANGED <<storage, call, callPc>>
               ELSE /\ storage' = [storage EXCEPT ![TheOrder] =
                                      [rounded_price |-> RoundPrice(p),
                                       quantity |-> q, timestamp |-> ts]]
                    /\ call' = [call EXCEPT ![t] =
                                  [NoCall EXCEPT !.op = "update", !.id = TheOrder,
                                      !.quantity = q, !.timestamp = ts,
                                      !.old_rounded_price = order.rounded_price,
                                      !.old_quantity = order.quantity,
                                      !.old_timestamp = order.timestamp]]
                    /\ callPc' = [callPc EXCEPT ![t] = "update_sort"]
            /\ UNCHANGED <<price_buckets, current_time, global_heap, price_lock>>
            /\ LocksFrame

BookUpdatesNext ==
    \/ BookConstruct
    \/ \E t \in Threads : UoRecordStart(t)
    \/ \E t \in Threads : RecordStore(t)
    \/ \E t \in Threads : RecordAdd(t)
    \/ \E t \in Threads : RecordHeap(t)
    \/ \E t \in Threads : UoUpdateStart(t)
    \/ \E t \in Threads : UpdateSortLocks(t)
    \/ \E t \in Threads : UpdateAcquire(t)
    \/ \E t \in Threads : UpdateMinus(t)
    \/ \E t \in Threads : UpdateAddRelease(t)

BookLocksNext ==
    \/ BookConstruct
    \/ \E t \in Threads : RecordStart(t)
    \/ \E t \in Threads : RecordStore(t)
    \/ \E t \in Threads : RecordAdd(t)
    \/ \E t \in Threads : RecordHeap(t)
    \/ \E t \in Threads : UpdateStart(t)
    \/ \E t \in Threads : UpdateSortLocks(t)
    \/ \E t \in Threads : UpdateAcquire(t)
    \/ \E t \in Threads : UpdateMinus(t)
    \/ \E t \in Threads : UpdateAddRelease(t)

----------------------------------------------------------------------------
(* Count-min sketches.  A table is a function <<row, column>> -> count.     *)

Rows == 0..(CmsDepth - 1)
Cols == 0..(CmsWidth - 1)
Items == 1..NumItems
CmsTimestamps == 0..MaxCmsTs

\* mmh3.hash(item, seeds[row]) % width: a fixed function of the row and the
\* item.  This one separates the items in row 0 and lets them collide in row 1.
ColIndex(row, item) == (item * (row + 1) + row) % CmsWidth

\* np.zeros((depth, width))
ZeroTable == [cell \in Rows \X Cols |-> 0]

\* for i in range(depth): table[i, col_index(i, item)] += count
TableAdd(table, item, count) ==
    [cell \in Rows \X Cols |->
        IF cell[2] = ColIndex(cell[1], item) THEN table[cell] + count
        ELSE table[cell]]

\* min over the rows of table[i, col_index(i, item)]
TableEstimate(table, item) ==
    LET candidates == {table[<<i, ColIndex(i, item)>>] : i \in Rows}
    IN  CHOOSE m \in candidates : \A c \in candidates : m <= c

----------------------------------------------------------------------------
(* impression_tracker.py CountMinSketch and RollingCMS.  The cells are      *)
(* numpy uint64: subtraction wraps around, and np.maximum(table, 0) then    *)
(* changes nothing.  The model keeps the wrap with a narrower cell.         *)

CellModulus == 65536

None == -1

\* Python truthiness of `start_time` (an int or None)
Truthy(x) == x # None /\ x # 0

IM_NumBuckets == WindowSeconds \div BucketSize + 1

\* RollingCMS._get_start_time
IM_GetStartTime(timestamp) == (timestamp \div BucketSize) * BucketSize

\* RollingCMS._get_bucket_index
IM_GetBucketIndex(start_time) == (start_time \div BucketSize) % IM_NumBuckets

IM_NewSketch == [start_time |-> 0, table |-> ZeroTable]

\* CountMinSketch.add
IM_SketchAdd(sketch, item, start_time, count) ==
    IF Truthy(start_time) /\ start_time < sketch.start_time THEN sketch
    ELSE IF Truthy(start_time) /\ start_time > sketch.start_time
         THEN [start_time |-> start_time,
               table |-> TableAdd(ZeroTable, item, count)]
         ELSE [sketch EXCEPT !.table = TableAdd(@, item, count)]

\* CountMinSketch.minus
IM_SketchMinus(sketch, other) ==
    [sketch EXCEPT !.table =
        [cell \in Rows \X Cols |->
            Max2((sketch.table[cell] - other.table[cell]) % CellModulus, 0)]]

\* RollingCMS.add: the merged sketch after the call
IM_MergedAfterAdd(buckets, merged, item, timestamp, count) ==
    LET start_time == IM_GetStartTime(timestamp)
        bucket == buckets[IM_GetBucketIndex(start_time)]
        merged1 == IF bucket.start_time # 0 /\ start_time > bucket.start_time
                   THEN IM_SketchMinus(merged, bucket)
                   ELSE merged
    IN  IM_SketchAdd(merged1, item, None, count)

\* RollingCMS.add: the buckets after the call
IM_BucketsAfterAdd(buckets, item, timestamp, count) ==
    LET start_time == IM_GetStartTime(timestamp)
    IN  [buckets EXCEPT ![IM_GetBucketIndex(start_time)] =
            IM_SketchAdd(@, item, start_time, count)]

ImInit ==
    /\ im_buckets = [i \in 0..(IM_NumBuckets - 1) |-> IM_NewSketch]
    /\ im_merged = IM_NewSketch
    /\ imOp = [item |-> 0, ts |-> 0, count |-> 0]
    /\ imCalls = 0

ImFrame ==
    UNCHANGED <<obRing, seqRingVars, addVars, bookVars, lockVars, hcVars, ttVars,
                restVars>>

\* RollingCMS.add(item, timestamp, count)
ImAddCall ==
    \E item \in Items, ts \in CmsTimestamps, c \in Counts :
        /\ imCalls < MaxCmsCalls
        /\ im_merged' = IM_MergedAfterAdd(im_buckets, im_merged, item, ts, c)
        /\ im_buckets' = IM_BucketsAfterAdd(im_buckets, item, ts, c)
        /\ imOp' = [item |-> item, ts |-> ts, count |-> c]
        /\ imCalls' = imCalls + 1
        /\ ImFrame

ImNext == ImAddCall

----------------------------------------------------------------------------
(* hashtag_tracker.py CountMinSketch and RollingCMS, called from threads.   *)
(* A block run under one lock is one step.  add's first block takes the     *)
(* bucket stripe lock and, inside it, global_lock; no holder of global_lock *)
(* waits for another lock, so the nesting cannot block for ever.            *)

HT_BucketSize == 10

HtTimestamps == {HT_BucketSize * k : k \in 0..MaxHtTick}

\* RollingCMS._get_bucket_index
HT_GetBucketIndex(timestamp) == timestamp \div HT_BucketSize

\* CountMinSketch.subtract: dtype=int cells, clamped at zero
HT_TableSubtract(table, other) ==
    [cell \in Rows \X Cols |-> Max2(table[cell] - other[cell], 0)]

RECURSIVE HT_SubtractAll(_, _)
\* for cms in to_subtract: self.merged.subtract(cms)
HT_SubtractAll(table, to_subtract) ==
    IF to_subtract = <<>> THEN table
    ELSE HT_SubtractAll(HT_TableSubtract(table, Head(to_subtract)), Tail(to_subtract))

NoBuckets == [i \in {} |-> ZeroTable]

\* _get_now_bucket(bucket_index) followed by bucket.add(key, count)
HT_BucketAdd(buckets, bucket_index, key, count) ==
    [i \in DOMAIN buckets \cup {bucket_index} |->
        IF i = bucket_index
        THEN TableAdd(IF i \in DOMAIN buckets THEN buckets[i] ELSE ZeroTable, key, count)
        ELSE buckets[i]]

\* del self.buckets[bucket_index]
HT_BucketDel(buckets, bucket_index) ==
    [i \in DOMAIN buckets \ {bucket_index} |-> buckets[i]]

\* min(self.buckets.keys())
HT_MinIndex(buckets) == CHOOSE i \in DOMAIN buckets : \A j \in DOMAIN buckets : i <= j

NoLocal ==
    [op |-> "none", key |-> 0, ts |-> 0, cutoff |-> 0, cur |-> 0, count |-> 0,
     posts |-> 0, tmp |-> 0, keys |-> <<>>, expired |-> 0, cutoff_index |-> 0,
     to_subtract |-> <<>>]

HcInit ==
    /\ hc_buckets = NoBuckets
    /\ hc_merged = ZeroTable
    /\ htPc = [t \in Threads |-> "idle"]
    /\ htLocal = [t \in Threads |-> NoLocal]
    /\ htCalls = [t \in Threads |-> 0]

HtFrame ==
    UNCHANGED <<obRing, seqRingVars, addVars, bookVars, lockVars, imVars, restVars>>

\* the call returns
HtReturn(t) ==
    /\ htPc' = [htPc EXCEPT ![t] = "idle"]
    /\ htLocal' = [htLocal EXCEPT ![t] = NoLocal]

\* a thread calls RollingCMS.add(key, timestamp)
HcAddStart(t) ==
    \E key \in Items, ts \in HtTimestamps :
        /\ htPc[t] = "idle"
        /\ htCalls[t] < MaxHtCallsPerThread
        /\ htCalls' = [htCalls EXCEPT ![t] = @ + 1]
        /\ htLocal' = [htLocal EXCEPT ![t] = [NoLocal EXCEPT !.op = "add", !.key = key, !.ts = ts]]
        /\ htPc' = [htPc EXCEPT ![t] = "cms_bucket"]
        /\ UNCHANGED <<hc_buckets, hc_merged, ttVars>>
        /\ HtFrame

\* a thread calls RollingCMS.cleanup_old_data(cutoff_time)
HcCleanupStart(t) ==
    \E cutoff \in HtTimestamps :
        /\ htPc[t] = "idle"
        /\ htCalls[t] < MaxHtCallsPerThread
        /\ htCalls' = [htCalls EXCEPT ![t] = @ + 1]
        /\ htLocal' = [htLocal EXCEPT ![t] =
                          [NoLocal EXCEPT !.op = "cleanup_old_data", !.cutoff = cutoff]]
        /\ htPc' = [htPc EXCEPT ![t] = "cleanup_begin"]
        /\ UNCHANGED <<hc_buckets, hc_merged, ttVars>>
        /\ HtFrame

\* RollingCMS.add, `with lock:` block: the bucket is fetched or created, and
\* takes the count
CmsAddBucket(t) ==
    /\ htPc[t] = "cms_bucket"
    /\ hc_buckets' = HT_BucketAdd(hc_buckets, HT_GetBucketIndex(htLocal[t].ts),
                                  htLocal[t].key, 1)
    /\ htPc' = [htPc EXCEPT ![t] = "cms_merged"]
    /\ UNCHANGED <<hc_merged, htLocal, htCalls, ttVars>>
    /\ HtFrame

\* RollingCMS.add, `with self.global_lock:` block: merged takes the count and
\* the call returns merged's estimate
CmsAddMerged(t) ==
    LET merged1 == TableAdd(hc_merged, htLocal[t].key, 1)
    IN  /\ htPc[t] = "cms_merged"
        /\ hc_merged' = merged1
        /\ IF htLocal[t].op = "add"
           THEN HtReturn(t)
           ELSE /\ htLocal' = [htLocal EXCEPT ![t].count = TableEstimate(merged1, htLocal[t].key)]
                /\ htPc' = [htPc EXCEPT ![t] = "heap"]
        /\ UNCHANGED <<hc_buckets, htCalls, ttVars>>
        /\ HtFrame

\* where cleanup_old_data goes when it returns
AfterCmsCleanup(t) ==
    IF htLocal[t].op = "cleanup_old_data"
    THEN HtReturn(t)
    ELSE /\ htPc' = [htPc EXCEPT ![t] = "cleanup_reset"]
         /\ htLocal' = [htLocal EXCEPT ![t].to_subtract = <<>>]

\* cleanup_old_data up to the loop: the early return, start_index, cutoff_index
CmsCleanupBegin(t) ==
    /\ htPc[t] = "cleanup_begin"
    /\ IF DOMAIN hc_buckets = {}
          \/ HT_MinIndex(hc_buckets) >= HT_GetBucketIndex(htLocal[t].cutoff)
       THEN AfterCmsCleanup(t)
       ELSE /\ htLocal' = [htLocal EXCEPT
                              ![t].expired = HT_MinIndex(hc_buckets),
                              ![t].cutoff_index = HT_GetBucketIndex(htLocal[t].cutoff)]
            /\ htPc' = [htPc EXCEPT ![t] = "cleanup_delete"]
    /\ UNCHANGED <<hc_buckets, hc_merged, htCalls, ttVars>>
    /\ HtFrame

\* one turn of the loop, under the bucket's stripe lock: self.buckets[index]
\* (a defaultdict: an absent bucket is created empty) is kept and deleted
CmsCleanupDelete(t) ==
    LET expired_index == htLocal[t].expired
        expired_cms == IF expired_index \in DOMAIN hc_buckets
                       THEN hc_buckets[expired_index] ELSE ZeroTable
    IN  /\ htPc[t] = "cleanup_delete"
        /\ hc_buckets' = HT_BucketDel(hc_buckets, expired_index)
        /\ htLocal' = [htLocal EXCEPT
                          ![t].to_subtract = Append(@, expired_cms),
                          ![t].expired = expired_index + 1]
        /\ htPc' = [htPc EXCEPT ![t] =
                       IF expired_index + 1 < htLocal[t].cutoff_index
                       THEN "cleanup_delete" ELSE "cleanup_subtract"]
        /\ UNCHANGED <<hc_merged, htCalls, ttVars>>
        /\ HtFrame

\* `with self.global_lock:` the deleted buckets are subtracted from merged
CmsCleanupSubtract(t) ==
    /\ htPc[t] = "cleanup_subtract"
    /\ hc_merged' = HT_SubtractAll(hc_merged, htLocal[t].to_subtract)
    /\ AfterCmsCleanup(t)
    /\ UNCHANGED <<hc_buckets, htCalls, ttVars>>
    /\ HtFrame

HashtagCMSNext ==
    \E t \in Threads :
        \/ HcAddStart(t)
        \/ HcCleanupStart(t)
        \/ CmsAddBucket(t)
        \/ CmsAddMerged(t)
        \/ CmsCleanupBegin(t)
        \/ CmsCleanupDelete(t)
        \/ CmsCleanupSubtract(t)

----------------------------------------------------------------------------
(* hashtag_tracker.py TrendingTracker.record_post, called from threads.     *)
(* current_time and posts_since_cleanup are read and written with no lock:  *)
(* each read and each write is a step of its own.                           *)

\* TrendingTracker(window_seconds=...): one bucket wide
TT_WindowSeconds == HT_BucketSize

\* the keys of the dict, in insertion order
DictKeys(d) == [i \in 1..Len(d) |-> d[i].key]

DictHas(d, key) == \E i \in 1..Len(d) : d[i].key = key

DictIndex(d, key) == CHOOSE i \in 1..Len(d) : d[i].key = key

\* self.hashtag_timestamps[hashtag]: a defaultdict(list)
DictGet(d, key) == IF DictHas(d, key) THEN d[DictIndex(d, key)].timestamps ELSE <<>>

\* self.hashtag_timestamps[hashtag] = timestamps
DictSet(d, key, timestamps) ==
    IF DictHas(d, key)
    THEN [d EXCEPT ![DictIndex(d, key)].timestamps = timestamps]
    ELSE Append(d, [key |-> key, timestamps |-> timestamps])

\* self.hashtag_timestamps.pop(hashtag, None)
DictPop(d, key) == SelectSeq(d, LAMBDA e : e.key # key)

RECURSIVE BisectRight(_, _, _, _)
\* bisect.bisect_right(a, x), positions counted from 0
BisectRight(a, x, lo, hi) ==
    IF lo >= hi THEN lo
    ELSE LET mid == (lo + hi) \div 2
         IN  IF x < a[mid + 1] THEN BisectRight(a, x, lo, mid)
             ELSE BisectRight(a, x, mid + 1, hi)

\* _cleanup_old_data, the body of the loop for one hashtag
TT_TrimHashtag(d, hashtag, cutoff_time) ==
    LET timestamps == DictGet(d, hashtag)
        idx == BisectRight(timestamps, cutoff_time, 0, Len(timestamps))
        kept == IF idx > 0 THEN SubSeq(timestamps, idx + 1, Len(timestamps))
                ELSE timestamps
    IN  IF kept = <<>> THEN DictPop(d, hashtag) ELSE DictSet(d, hashtag, kept)

NoHeap == [h \in {} |-> 0]

\* heapdict.peekitem(): entries compare by priority, then by key
TT_HeapMinKey(heap) ==
    CHOOSE h \in DOMAIN heap :
        \A g \in DOMAIN heap :
            heap[h] < heap[g] \/ (heap[h] = heap[g] /\ h <= g)

\* top_k_global_heap[hashtag] = count
TT_HeapSet(heap, hashtag, count) ==
    [h \in DOMAIN heap \cup {hashtag} |-> IF h = hashtag THEN count ELSE heap[h]]

\* TrendingTracker._update_global_heap, inside the lock
TT_UpdateGlobalHeap(heap, hashtag, count) ==
    IF Cardinality(DOMAIN heap) < TT_K \/ hashtag \in DOMAIN heap
    THEN TT_HeapSet(heap, hashtag, count)
    ELSE IF count > heap[TT_HeapMinKey(heap)]
         THEN TT_HeapSet([h \in DOMAIN heap \ {TT_HeapMinKey(heap)} |-> heap[h]],
                         hashtag, count)
         ELSE heap

TtInit ==
    /\ tt_current_time = 0
    /\ hashtag_timestamps = <<>>
    /\ top_k_global_heap = NoHeap
    /\ tt_global_lock = 0
    /\ posts_since_cleanup = 0
    /\ ttMaxTs = 0

\* record_post(hashtag, timestamp) is called; line 208 reads self.current_time
RecordPostStart(t) ==
    \E hashtag \in Items, ts \in HtTimestamps :
        /\ htPc[t] = "idle"
        /\ htCalls[t] < MaxPostsPerThread
        /\ htCalls' = [htCalls EXCEPT ![t] = @ + 1]
        /\ htLocal' = [htLocal EXCEPT ![t] =
                          [NoLocal EXCEPT !.op = "record_post", !.key = hashtag,
                                          !.ts = ts, !.cur = tt_current_time]]
        /\ ttMaxTs' = Max2(ttMaxTs, ts)
        /\ htPc' = [htPc EXCEPT ![t] = "store_time"]
        /\ UNCHANGED <<hc_buckets, hc_merged, tt_current_time, hashtag_timestamps,
                       top_k_global_heap, tt_global_lock, posts_since_cleanup>>
        /\ HtFrame

\* line 208 stores max(<the value read>, timestamp)
RecordPostStoreTime(t) ==
    /\ htPc[t] = "store_time"
    /\ tt_current_time' = Max2(htLocal[t].cur, htLocal[t].ts)
    /\ htPc' = [htPc EXCEPT ![t] = "append"]
    /\ UNCHANGED <<hc_buckets, hc_merged, htLocal, htCalls, hashtag_timestamps,
                   top_k_global_heap, tt_global_lock, posts_since_cleanup, ttMaxTs>>
    /\ HtFrame

\* under the hashtag's stripe lock: hashtag_timestamps[hashtag].append(timestamp)
RecordPostAppend(t) ==
    /\ htPc[t] = "append"
    /\ hashtag_timestamps' =
           DictSet(hashtag_timestamps, htLocal[t].key,
                   Append(DictGet(hashtag_timestamps, htLocal[t].key), htLocal[t].ts))
    /\ htPc' = [htPc EXCEPT ![t] = "cms_bucket"]
    /\ UNCHANGED <<hc_buckets, hc_merged, htLocal, htCalls, tt_current_time,
                   top_k_global_heap, tt_global_lock, posts_since_cleanup, ttMaxTs>>
    /\ HtFrame

\* _update_global_heap(hashtag, count): waits for global_lock
RecordPostUpdateHeap(t) ==
    /\ htPc[t] = "heap"
    /\ tt_global_lock = 0
    /\ top_k_global_heap' =
           TT_UpdateGlobalHeap(top_k_global_heap, htLocal[t].key, htLocal[t].count)
    /\ htPc' = [htPc EXCEPT ![t] = "posts_read"]
    /\ UNCHANGED <<hc_buckets, hc_merged, htLocal, htCalls, tt_current_time,
                   hashtag_timestamps, tt_global_lock, posts_since_cleanup, ttMaxTs>>
    /\ HtFrame

\* posts = self.posts_since_cleanup
RecordPostReadPosts(t) ==
    /\ htPc[t] = "posts_read"
    /\ htLocal' = [htLocal EXCEPT ![t].posts = posts_since_cleanup]
    /\ htPc' = [htPc EXCEPT ![t] = "incr_read"]
    /\ UNCHANGED <<hc_buckets, hc_merged, htCalls, ttVars>>
    /\ HtFrame

\* self.posts_since_cleanup += 1, the read
RecordPostIncrRead(t) ==
    /\ htPc[t] = "incr_read"
    /\ htLocal' = [htLocal EXCEPT ![t].tmp = posts_since_cleanup]
    /\ htPc' = [htPc EXCEPT ![t] = "incr_write"]
    /\ UNCHANGED <<hc_buckets, hc_merged, htCalls, ttVars>>
    /\ HtFrame

\* self.posts_since_cleanup += 1, the write; then `if posts >= clean_every_n_posts`
RecordPostIncrWrite(t) ==
    /\ htPc[t] = "incr_write"
    /\ posts_since_cleanup' = htLocal[t].tmp + 1
    /\ IF htLocal[t].posts >= TT_CleanEvery
       THEN /\ htLocal' = [htLocal EXCEPT ![t].cutoff = htLocal[t].ts - TT_WindowSeconds]
            /\ htPc' = [htPc EXCEPT ![t] = "cleanup_trylock"]
       ELSE HtReturn(t)
    /\ UNCHANGED <<hc_buckets, hc_merged, htCalls, tt_current_time, hashtag_timestamps,
                   top_k_global_heap, tt_global_lock, ttMaxTs>>
    /\ HtFrame

\* _cleanup_old_data: global_lock.acquire(blocking=False), the early returns,
\* and list(self.hashtag_timestamps.keys())
TtCleanupTryLock(t) ==
    /\ htPc[t] = "cleanup_trylock"
    /\ IF tt_global_lock # 0 \/ hashtag_timestamps = <<>>
       THEN /\ HtReturn(t)
            /\ UNCHANGED tt_global_lock
       ELSE /\ tt_global_lock' = t
            /\ htLocal' = [htLocal EXCEPT ![t].keys = DictKeys(hashtag_timestamps)]
            /\ htPc' = [htPc EXCEPT ![t] = "cleanup_trim"]
    /\ UNCHANGED <<hc_buckets, hc_merged, htCalls, tt_current_time, hashtag_timestamps,
                   top_k_global_heap, posts_since_cleanup, ttMaxTs>>
    /\ HtFrame

\* one turn of the loop over the hashtags, under the hashtag's stripe lock;
\* after the last one rolling_cms.cleanup_old_data(cutoff_time) is called
TtCleanupTrim(t) ==
    /\ htPc[t] = "cleanup_trim"
    /\ hashtag_timestamps' =
           TT_TrimHashtag(hashtag_timestamps, Head(htLocal[t].keys), htLocal[t].cutoff)
    /\ htLocal' = [htLocal EXCEPT ![t].keys = Tail(@)]
    /\ htPc' = [htPc EXCEPT ![t] =
                   IF Tail(htLocal[t].keys) = <<>> THEN "cleanup_begin" ELSE "cleanup_trim"]
    /\ UNCHANGED <<hc_buckets, hc_merged, htCalls, tt_current_time, top_k_global_heap,
                   tt_global_lock, posts_since_cleanup, ttMaxTs>>
    /\ HtFrame

\* self.posts_since_cleanup = 0, and the finally: global_lock.release()
TtCleanupReset(t) ==
    /\ htPc[t] = "cleanup_reset"
    /\ posts_since_cleanup' = 0
    /\ tt_global_lock' = 0
    /\ HtReturn(t)
    /\ UNCHANGED <<hc_buckets, hc_merged, htCalls, tt_current_time, hashtag_timestamps,
                   top_k_global_heap, ttMaxTs>>
    /\ HtFrame

TrendingNext ==
    \E t \in Threads :
        \/ RecordPostStart(t)
        \/ RecordPostStoreTime(t)
        \/ RecordPostAppend(t)
        \/ CmsAddBucket(t)
        \/ CmsAddMerged(t)
        \/ RecordPostUpdateHeap(t)
        \/ RecordPostReadPosts(t)
        \/ RecordPostIncrRead(t)
        \/ RecordPostIncrWrite(t)
        \/ TtCleanupTryLock(t)
        \/ TtCleanupTrim(t)
        \/ CmsCleanupBegin(t)
        \/ CmsCleanupDelete(t)
        \/ CmsCleanupSubtract(t)
        \/ TtCleanupReset(t)

----------------------------------------------------------------------------
(* event_tracker.py EventTracker, single-threaded.  Each call is one step.  *)

EventIds == 1..NumEvents
UserIds == 1..NumUsers
EventTypes == 1..NumEventTypes

NoEvent == [user_id |-> 0, event_type |-> 0, timestamp |-> -1]

NoDict == [k \in {} |-> 0]

\* d[key] = value
Put(d, key, value) == [k \in DOMAIN d \cup {key} |-> IF k = key THEN value ELSE d[k]]

\* d.pop(key, None)
Drop(d, key) == [k \in DOMAIN d \ {key} |-> d[k]]

\* d.setdefault(key, value), the dict afterwards
SetDefault(d, key, value) == IF key \in DOMAIN d THEN d ELSE Put(d, key, value)

RECURSIVE ET_TotalLoop(_, _, _, _, _)
\* RingBuffer.total_from, the while loop
ET_TotalLoop(ring, cutoff_index, now_index, cutoff_start_time, visited) ==
    IF cutoff_index # (now_index + 1) % ET_NumBuckets /\ visited < ET_NumBuckets
    THEN (IF ring[cutoff_index].quantity > 0
             /\ ring[cutoff_index].start_time >= cutoff_start_time
          THEN ring[cutoff_index].quantity ELSE 0)
         + ET_TotalLoop(ring, (cutoff_index + 1) % ET_NumBuckets, now_index,
                        cutoff_start_time, visited + 1)
    ELSE 0

\* RingBuffer.total_from(now, cutoff)
ET_TotalFrom(ring, now, cutoff) ==
    ET_TotalLoop(ring, ET_GetBucketIndex(cutoff), ET_GetBucketIndex(now),
                 GetBucketStartTime(cutoff), 0)

\* EventTracker.get_event_count(event_type, last_t_seconds)
GetEventCount(event_type, last_t_seconds) ==
    LET now == ev_current_time
        cutoff == now - (IF WindowSeconds < last_t_seconds THEN WindowSeconds
                         ELSE last_t_seconds)
    IN  ET_TotalFrom(event_type_rbs[event_type], now, cutoff)

EvInit ==
    /\ ev_events = [e \in EventIds |-> NoEvent]
    /\ ev_users = NoDict
    /\ event_type_rbs = NoDict
    /\ event_type_user_event_counts = NoDict
    /\ event_types = {}
    /\ ev_current_time = 0
    /\ evCalls = 0
    /\ evOp = [kind |-> "none", id |-> 0, result |-> FALSE]

EvFrame == UNCHANGED <<baseVars, imVars, itVars, cpVars, whVars, tkVars, moreVars>>

\* EventTracker.record_event(event_id, user_id, event_type, timestamp)
RecordEvent(event_id, user_id, event_type, timestamp) ==
    IF ev_events[event_id] # NoEvent
    THEN UNCHANGED <<ev_events, ev_users, event_type_rbs,
                     event_type_user_event_counts, event_types, ev_current_time>>
    ELSE LET rbs1 == SetDefault(event_type_rbs, event_type, ET_NewRing)
             users1 == SetDefault(ev_users, user_id, {})
             new_user_event == event_id \notin users1[user_id]
             counts1 == SetDefault(event_type_user_event_counts, event_type, NoDict)
             counts2 == [counts1 EXCEPT ![event_type] = SetDefault(@, user_id, 0)]
         IN  /\ ev_events' = [ev_events EXCEPT ![event_id] =
                                 [user_id |-> user_id, event_type |-> event_type,
                                  timestamp |-> timestamp]]
             /\ event_types' = event_types \cup {event_type}
             /\ ev_users' = [users1 EXCEPT ![user_id] = @ \cup {event_id}]
             /\ event_type_user_event_counts' =
                    IF new_user_event
                    THEN [counts2 EXCEPT ![event_type][user_id] = @ + 1]
                    ELSE counts2
             /\ ev_current_time' = Max2(ev_current_time, timestamp)
             /\ event_type_rbs' =
                    [rbs1 EXCEPT ![event_type] = ET_RingAdd(@, timestamp, 1)]

\* EventTracker.update_event_timestamp(event_id, user_id, new_timestamp)
UpdateEventTimestamp(event_id, new_timestamp) ==
    IF ev_events[event_id] = NoEvent
    THEN UNCHANGED <<ev_events, ev_users, event_type_rbs,
                     event_type_user_event_counts, event_types, ev_current_time>>
    ELSE LET now == ev_current_time
             event == ev_events[event_id]
             old_timestamp == event.timestamp
         IN  /\ ev_events' = [ev_events EXCEPT ![event_id].timestamp = new_timestamp]
             /\ ev_current_time' = Max2(ev_current_time, new_timestamp)
             /\ event_type_rbs' =
                    IF old_timestamp < now - WindowSeconds
                    THEN event_type_rbs
                    ELSE [event_type_rbs EXCEPT ![event.event_type] =
                             ET_RingAdd(ET_RingMinus(@, old_timestamp, 1),
                                        new_timestamp, 1)]
             /\ UNCHANGED <<ev_users, event_type_user_event_counts, event_types>>

\* what update_event_timestamp returns
UpdateEventTimestampResult(event_id) ==
    /\ ev_events[event_id] # NoEvent
    /\ ~(ev_events[event_id].timestamp < ev_current_time - WindowSeconds)

\* what delete_event returns
DeleteEventResult(event_id) ==
    /\ ev_events[event_id] # NoEvent
    /\ ~(ev_events[event_id].timestamp < ev_current_time - WindowSeconds)

\* EventTracker.delete_event(event_id)
DeleteEvent(event_id) ==
    IF ev_events[event_id] = NoEvent
    THEN UNCHANGED <<ev_events, ev_users, event_type_rbs,
                     event_type_user_event_counts, event_types, ev_current_time>>
    ELSE LET now == ev_current_time
             event == ev_events[event_id]
             counts == event_type_user_event_counts
         IN  /\ ev_events' = [ev_events EXCEPT ![event_id] = NoEvent]
             /\ ev_users' = [ev_users EXCEPT ![event.user_id] = @ \ {event_id}]
             /\ event_type_user_event_counts' =
                    IF event.event_type \in DOMAIN counts
                       /\ event.user_id \in DOMAIN counts[event.event_type]
                    THEN [counts EXCEPT ![event.event_type][event.user_id] =
                             Max2(0, @ - 1)]
                    ELSE counts
             /\ event_type_rbs' =
                    IF event.timestamp < now - WindowSeconds
                    THEN event_type_rbs
                    ELSE [event_type_rbs EXCEPT ![event.event_type] =
                             ET_RingMinus(@, event.timestamp, 1)]
             /\ UNCHANGED <<event_types, ev_current_time>>

RECURSIVE MinusEvents(_, _, _)
\* delete_user, the loop over the user's events
MinusEvents(rbs, ids, cutoff) ==
    IF ids = {} THEN rbs
    ELSE LET id == CHOOSE i \in ids : TRUE
             event == ev_events[id]
             rbs1 == IF event.event_type \in DOMAIN rbs /\ event.timestamp >= cutoff
                     THEN [rbs EXCEPT ![event.event_type] =
                              ET_RingMinus(@, event.timestamp, 1)]
                     ELSE rbs
         IN  MinusEvents(rbs1, ids \ {id}, cutoff)

RECURSIVE PopUserFromTypes(_, _, _)
\* delete_user, the loop over the event types: <<counts, rbs, event_types>>
PopUserFromTypes(state, types, user_id) ==
    IF types = {} THEN state
    ELSE LET event_type == CHOOSE x \in types : TRUE
             counts1 == [state[1] EXCEPT ![event_type] = Drop(@, user_id)]
             emptied == DOMAIN counts1[event_type] = {}
             state1 == IF emptied
                       THEN <<Drop(counts1, event_type), Drop(state[2], event_type),
                              state[3] \ {event_type}>>
                       ELSE <<counts1, state[2], state[3]>>
         IN  PopUserFromTypes(state1, types \ {event_type}, user_id)

\* EventTracker.delete_user(user_id)
DeleteUser(user_id) ==
    IF user_id \notin DOMAIN ev_users
    THEN UNCHANGED <<ev_events, ev_users, event_type_rbs,
                     event_type_user_event_counts, event_types, ev_current_time>>
    ELSE LET cutoff == ev_current_time - WindowSeconds
             user_events == {e \in ev_users[user_id] : ev_events[e] # NoEvent}
             types == {ev_events[e].event_type : e \in user_events}
             rbs1 == MinusEvents(event_type_rbs, user_events, cutoff)
             final == PopUserFromTypes(<<event_type_user_event_counts, rbs1,
                                         event_types>>, types, user_id)
         IN  /\ ev_users' = Drop(ev_users, user_id)
             /\ ev_events' = [e \in EventIds |->
                                 IF e \in ev_users[user_id] THEN NoEvent
                                 ELSE ev_events[e]]
             /\ event_type_user_event_counts' = final[1]
             /\ event_type_rbs' = final[2]
             /\ event_types' = final[3]
             /\ UNCHANGED ev_current_time

RecordEventCall ==
    \E e \in EventIds, u \in UserIds, ty \in EventTypes, ts \in Timestamps :
        /\ evCalls < MaxEvCalls
        /\ evCalls' = evCalls + 1
        /\ RecordEvent(e, u, ty, ts)
        /\ evOp' = [kind |-> "record", id |-> e, result |-> TRUE]
        /\ EvFrame

UpdateEventTimestampCall ==
    \E e \in EventIds, ts \in Timestamps :
        /\ evCalls < MaxEvCalls
        /\ evCalls' = evCalls + 1
        /\ UpdateEventTimestamp(e, ts)
        /\ evOp' = [kind |-> "update", id |-> e,
                    result |-> UpdateEventTimestampResult(e)]
        /\ EvFrame

DeleteEventCall ==
    \E e \in EventIds :
        /\ evCalls < MaxEvCalls
        /\ evCalls' = evCalls + 1
        /\ DeleteEvent(e)
        /\ evOp' = [kind |-> "delete", id |-> e, result |-> DeleteEventResult(e)]
        /\ EvFrame

DeleteUserCall ==
    \E u \in UserIds :
        /\ evCalls < MaxEvCalls
        /\ evCalls' = evCalls + 1
        /\ DeleteUser(u)
        /\ evOp' = [kind |-> "delete_user", id |-> u,
                    result |-> u \in DOMAIN ev_users]
        /\ EvFrame

EventsNext ==
    \/ RecordEventCall
    \/ UpdateEventTimestampCall
    \/ DeleteEventCall
    \/ DeleteUserCall

----------------------------------------------------------------------------
(* impression_tracker.py ImpressionTracker, single-threaded.  The           *)
(* constructor is a step of its own, so that window_seconds and bucket_size *)
(* range over several configurations.                                       *)

Regions == 1..NumRegions

\* ImpressionTracker(window_seconds, bucket_size): the configurations tried
ItConfigs ==
    {[window_seconds |-> w, bucket_size |-> BucketSize] :
        w \in {WindowSeconds, WindowSeconds + 1}}

NoConfig == [window_seconds |-> 0, bucket_size |-> 0]

\* RollingCMS.__init__: num_buckets
RC_NumBuckets(cfg) == cfg.window_seconds \div cfg.bucket_size + 1

\* RollingCMS._get_start_time
RC_GetStartTime(cfg, timestamp) == (timestamp \div cfg.bucket_size) * cfg.bucket_size

\* RollingCMS._get_bucket_index
RC_GetBucketIndex(cfg, start_time) ==
    (start_time \div cfg.bucket_size) % RC_NumBuckets(cfg)

\* RollingCMS.__init__
RC_New(cfg) ==
    [buckets |-> [i \in 0..(RC_NumBuckets(cfg) - 1) |-> IM_NewSketch],
     merged |-> IM_NewSketch]

\* RollingCMS.add(item, timestamp, count)
RC_Add(cfg, cms, item, timestamp, count) ==
    LET start_time == RC_GetStartTime(cfg, timestamp)
        bucket_index == RC_GetBucketIndex(cfg, start_time)
        bucket == cms.buckets[bucket_index]
        merged1 == IF bucket.start_time # 0 /\ start_time > bucket.start_time
                   THEN IM_SketchMinus(cms.merged, bucket)
                   ELSE cms.merged
    IN  [buckets |-> [cms.buckets EXCEPT ![bucket_index] =
                         IM_SketchAdd(@, item, start_time, count)],
         merged |-> IM_SketchAdd(merged1, item, None, count)]

RECURSIVE RC_EstimateLoop(_, _, _, _, _)
\* RollingCMS.estimate_from, the while loop
RC_EstimateLoop(cfg, cms, item, cutoff_index, now_index) ==
    IF cutoff_index # (now_index + 1) % RC_NumBuckets(cfg)
    THEN TableEstimate(cms.buckets[cutoff_index].table, item)
         + RC_EstimateLoop(cfg, cms, item, (cutoff_index + 1) % RC_NumBuckets(cfg),
                           now_index)
    ELSE 0

\* RollingCMS.estimate_from(item, now, cutoff)
RC_EstimateFrom(cfg, cms, item, now, cutoff) ==
    IF now - cutoff >= cfg.window_seconds
    THEN TableEstimate(cms.merged.table, item)
    ELSE RC_EstimateLoop(cfg, cms, item,
                         RC_GetBucketIndex(cfg, RC_GetStartTime(cfg, cutoff)),
                         RC_GetBucketIndex(cfg, RC_GetStartTime(cfg, now)))

\* ImpressionTracker.get_impression_count(ad_id, last_t_seconds), on a state
\* given by its parts
ImpressionCount(cfg, ads, cms, now, ad_id, last_t_seconds) ==
    IF ad_id \notin ads THEN 0
    ELSE LET t == IF cfg.window_seconds < last_t_seconds THEN cfg.window_seconds
                  ELSE last_t_seconds
         IN  RC_EstimateFrom(cfg, cms, ad_id, now, now - t)

NoItOp == [kind |-> "none", ad |-> 0, ts |-> 0, late |-> FALSE]

ItInit ==
    /\ it_config = NoConfig
    /\ ad_cms = [buckets |-> <<>>, merged |-> IM_NewSketch]
    /\ region_cms = NoDict
    /\ region_ads = NoDict
    /\ it_ads = {}
    /\ it_current_time = 0
    /\ itRecorded = [x \in Items \X CmsTimestamps |-> 0]
    /\ itLate = FALSE
    /\ itOp = NoItOp
    /\ itCalls = 0

ItFrame == UNCHANGED <<baseVars, imVars, evVars, cpVars, whVars, tkVars, moreVars>>

\* ImpressionTracker.__init__(window_seconds, bucket_size)
ItConstruct ==
    \E cfg \in ItConfigs :
        /\ it_config = NoConfig
        /\ it_config' = cfg
        /\ ad_cms' = RC_New(cfg)
        /\ UNCHANGED <<region_cms, region_ads, it_ads, it_current_time, itRecorded,
                       itLate, itOp, itCalls>>
        /\ ItFrame

\* ImpressionTracker.record_impression(ad_id, region, timestamp)
RecordImpression ==
    \E ad_id \in Items, region \in Regions, timestamp \in CmsTimestamps :
        LET cms == IF region \in DOMAIN region_cms THEN region_cms[region]
                   ELSE RC_New(it_config)
            ad_ids == IF region \in DOMAIN region_ads THEN region_ads[region] ELSE {}
            late == timestamp < it_current_time - it_config.window_seconds
        IN  /\ it_config # NoConfig
            /\ itCalls < MaxItCalls
            /\ itCalls' = itCalls + 1
            /\ region_ads' = Put(region_ads, region, ad_ids \cup {ad_id})
            /\ region_cms' = Put(region_cms, region,
                                 RC_Add(it_config, cms, ad_id, timestamp, 1))
            /\ ad_cms' = RC_Add(it_config, ad_cms, ad_id, timestamp, 1)
            /\ it_ads' = it_ads \cup {ad_id}
            /\ it_current_time' = Max2(it_current_time, timestamp)
            /\ itRecorded' = [itRecorded EXCEPT ![<<ad_id, timestamp>>] = @ + 1]
            /\ itLate' = (itLate \/ late)
            /\ itOp' = [kind |-> "record_impression", ad |-> ad_id, ts |-> timestamp,
                        late |-> late]
            /\ UNCHANGED it_config
            /\ ItFrame

ImpressionsNext ==
    \/ ItConstruct
    \/ RecordImpression

----------------------------------------------------------------------------
(* carpark.py CarparkTracker, single-threaded.  Each call is one step.      *)

\* the lots of `capacities`, and one lot id that is not among them
Lots == 1..NumLots
LotInputs == 1..(NumLots + 1)
Cars == 1..NumCars
EventKinds == {"ENTER", "EXIT"}
CpTimestamps == 0..MaxCpTs

\* _record_occupancy_snapshot: `timestamp % 60 == 0`
SnapshotPeriod == 60

\* a lateness test that also drops the event at the limit
CP_TooLateAtLimit(timestamp, now) == timestamp <= now - MaxDelay

\* record_event: `timestamp < self.current_time - self.max_delay`
CP_TooLate(timestamp, now) == timestamp < now - MaxDelay

\* an occupancy test that forgets the capacity
CP_OccupancyOKAnyLoad(lot, car_id, event_type) ==
    IF event_type = "ENTER" THEN car_id \notin lot ELSE car_id \in lot

\* _record_occupancy: whether the event is applied, with the lot's set created
CP_OccupancyOK(lot, car_id, event_type) ==
    IF event_type = "ENTER"
    THEN ~(Cardinality(lot) >= LotCapacity \/ car_id \in lot)
    ELSE car_id \in lot

\* _record_occupancy: the lot's set afterwards
CP_OccupancyAfter(lot, car_id, event_type) ==
    IF ~CP_OccupancyOK(lot, car_id, event_type) THEN lot
    ELSE IF event_type = "ENTER" THEN lot \cup {car_id} ELSE lot \ {car_id}

\* _record_occupancy_snapshot: the lot's list afterwards
CP_SnapshotsAfter(snapshots, lot_id, timestamp, occupancy, now) ==
    IF timestamp % SnapshotPeriod # 0 THEN snapshots
    ELSE LET old == IF lot_id \in DOMAIN snapshots THEN snapshots[lot_id] ELSE <<>>
             cutoff == now - WindowSeconds
         IN  Put(snapshots, lot_id,
                 SelectSeq(Append(old, <<timestamp, occupancy>>),
                           LAMBDA sn : sn[1] > cutoff))

NoCpOp ==
    [lot |-> 0, car |-> 0, type |-> "none", ts |-> 0, now |-> 0, applied |-> FALSE]

CpInit ==
    /\ lot_occupancy = NoDict
    /\ enter_time_buckets = [l \in Lots |-> CP_NewRing]
    /\ exit_time_buckets = [l \in Lots |-> CP_NewRing]
    /\ occupancy_snapshots = NoDict
    /\ cp_current_time = 0
    /\ cpOp = NoCpOp
    /\ cpDropped = FALSE
    /\ cpCalls = 0

CpFrame == UNCHANGED <<baseVars, imVars, evVars, itVars, whVars, tkVars, moreVars>>

\* CarparkTracker.record_event(lot_id, car_id, event_type, timestamp)
CP_RecordEvent(lot_id, car_id, event_type, timestamp) ==
    IF lot_id \notin Lots \/ CP_TooLate(timestamp, cp_current_time)
    THEN UNCHANGED <<lot_occupancy, enter_time_buckets, exit_time_buckets,
                     occupancy_snapshots, cp_current_time>>
    ELSE LET lot == IF lot_id \in DOMAIN lot_occupancy THEN lot_occupancy[lot_id]
                    ELSE {}
             lot1 == CP_OccupancyAfter(lot, car_id, event_type)
         IN  /\ lot_occupancy' = Put(lot_occupancy, lot_id, lot1)
             /\ IF ~CP_OccupancyOK(lot, car_id, event_type)
                THEN UNCHANGED <<enter_time_buckets, exit_time_buckets,
                                 occupancy_snapshots, cp_current_time>>
                ELSE /\ occupancy_snapshots' =
                            CP_SnapshotsAfter(occupancy_snapshots, lot_id, timestamp,
                                              Cardinality(lot1), cp_current_time)
                     /\ IF event_type = "ENTER"
                        THEN /\ enter_time_buckets' =
                                    [enter_time_buckets EXCEPT ![lot_id] =
                                        CP_RingAdd(@, timestamp, 1)]
                             /\ UNCHANGED exit_time_buckets
                        ELSE /\ exit_time_buckets' =
                                    [exit_time_buckets EXCEPT ![lot_id] =
                                        CP_RingAdd(@, timestamp, 1)]
                             /\ UNCHANGED enter_time_buckets
                     /\ cp_current_time' = Max2(cp_current_time, timestamp)

CpRecordEventCall ==
    \E lot_id \in LotInputs, car_id \in Cars, event_type \in EventKinds,
       timestamp \in CpTimestamps :
        /\ cpCalls < MaxCpCalls
        /\ cpCalls' = cpCalls + 1
        /\ cpOp' = [lot |-> lot_id, car |-> car_id, type |-> event_type,
                    ts |-> timestamp, now |-> cp_current_time,
                    applied |-> /\ lot_id \in Lots
                                /\ ~CP_TooLate(timestamp, cp_current_time)
                                /\ CP_OccupancyOK(
                                       IF lot_id \in DOMAIN lot_occupancy
                                       THEN lot_occupancy[lot_id] ELSE {},
                                       car_id, event_type)]
        /\ cpDropped' = (cpDropped \/ (lot_id \in Lots
                                       /\ timestamp = cp_current_time - MaxDelay - 1))
        /\ CP_RecordEvent(lot_id, car_id, event_type, timestamp)
        /\ CpFrame

CarparkNext == CpRecordEventCall

----------------------------------------------------------------------------
(* warehouse.InventorySystem.  num_locks is NumLocks, ops_max_len is        *)
(* OpsMaxLen and max_requests // num_locks is MaxRequestsPerCache.          *)

InvItems == 1..NumInvItems
Warehouses == 1..NumWarehouses
Quantities == 1..MaxQuantity
InvTimestamps == 1..MaxInvTs

\* InventoryStockOperation, and the two read queries the threads also make
StockOps == {"ADD", "DEL", "TFR"}
QueryOps == {"GLOBAL", "WAREHOUSE"}

\* the idempotency key of _dedup_request
WH_Key(op, item_id, timestamp, warehouse_ids) ==
    [op |-> op, item_id |-> item_id, timestamp |-> timestamp,
     warehouse_ids |-> warehouse_ids]

WhKeys ==
    { WH_Key(op, i, ts, <<w>>) :
        op \in {"ADD", "DEL"}, i \in InvItems, ts \in InvTimestamps, w \in Warehouses }
    \cup { WH_Key("TFR", i, ts, <<w1, w2>>) :
        i \in InvItems, ts \in InvTimestamps, w1 \in Warehouses, w2 \in Warehouses }

\* hash(item_id) % num_locks: the hash of a small int is the int
ItemStripe(item_id) == item_id % NumLocks

\* hash((item_id, warehouse_id)) % num_locks: a fixed function of the pair
ItemWarehouseStripe(item_id, warehouse_id) == (item_id + warehouse_id) % NumLocks

RECURSIVE SeqTotal(_)
SeqTotal(s) == IF s = <<>> THEN 0 ELSE Head(s) + SeqTotal(Tail(s))

\* hash(key) % num_locks: a fixed function of the key
KeyStripe(key) ==
    (key.item_id + key.timestamp + SeqTotal(key.warehouse_ids)
     + (CASE key.op = "ADD" -> 1 [] key.op = "DEL" -> 2 [] OTHER -> 3)) % NumLocks

InSeq(s, x) == \E i \in 1..Len(s) : s[i] = x

\* _dedup_request: `key in self.request_cache[lock_index]`, always a miss
DedupNeverHit(cache, key) == FALSE

\* _dedup_request: `key in self.request_cache[lock_index]`
DedupHit(cache, key) == InSeq(cache[KeyStripe(key)], key)

\* _dedup_request: the cache it leaves (move_to_end on a hit; insert, then
\* popitem(last=False) when over max_requests_per_cache, on a miss)
DedupAfter(cache, key) ==
    LET c == cache[KeyStripe(key)]
        moved == SelectSeq(c, LAMBDA k : k # key) \o <<key>>
        added == Append(c, key)
    IN  [cache EXCEPT ![KeyStripe(key)] =
            IF DedupHit(cache, key) THEN moved
            ELSE IF Len(added) > MaxRequestsPerCache THEN Tail(added) ELSE added]

\* the keys _dedup_request evicts
DedupEvicts(cache, key) ==
    LET c == cache[KeyStripe(key)]
    IN  IF ~DedupHit(cache, key) /\ Len(c) + 1 > MaxRequestsPerCache
        THEN {Head(Append(c, key))} ELSE {}

\* self.item_warehouse_stocks.get(item_id, {})
StocksOf(stocks, item_id) == IF item_id \in DOMAIN stocks THEN stocks[item_id] ELSE NoDict

\* self.item_warehouse_stocks.get(item_id, {}).get(warehouse_id, 0)
StockAt(stocks, item_id, warehouse_id) ==
    IF warehouse_id \in DOMAIN StocksOf(stocks, item_id)
    THEN stocks[item_id][warehouse_id] ELSE 0

\* _add_stock
WH_AddStock(stocks, item_id, quantity, warehouse_id) ==
    Put(stocks, item_id,
        Put(StocksOf(stocks, item_id), warehouse_id,
            StockAt(stocks, item_id, warehouse_id) + quantity))

\* _remove_stock: the test that lets it go on
WH_CanRemove(stocks, item_id, quantity, warehouse_id) ==
    item_id \in DOMAIN stocks /\ StockAt(stocks, item_id, warehouse_id) >= quantity

\* _remove_stock without the test: the stock may go below zero
WH_RemoveUnchecked(stocks, item_id, quantity, warehouse_id) ==
    Put(stocks, item_id,
        Put(StocksOf(stocks, item_id), warehouse_id,
            StockAt(stocks, item_id, warehouse_id) - quantity))

\* _remove_stock: the stocks it leaves when the test passes
WH_RemoveStock(stocks, item_id, quantity, warehouse_id) ==
    IF ~WH_CanRemove(stocks, item_id, quantity, warehouse_id) THEN stocks
    ELSE LET new_stock == StockAt(stocks, item_id, warehouse_id) - quantity
             rest == Drop(stocks[item_id], warehouse_id)
         IN  IF new_stock = 0
             THEN IF DOMAIN rest = {} THEN Drop(stocks, item_id)
                  ELSE Put(stocks, item_id, rest)
             ELSE Put(stocks, item_id, Put(stocks[item_id], warehouse_id, new_stock))

\* a defaultdict(int) counter: d[key] += quantity
AddCount(d, key, quantity) ==
    Put(d, key, (IF key \in DOMAIN d THEN d[key] ELSE 0) + quantity)

\* _add_item_audit_op
WH_AuditAppend(ops, item_id, quantity, timestamp, op, warehouse_ids) ==
    LET log == Append(IF item_id \in DOMAIN ops THEN ops[item_id] ELSE <<>>,
                      [timestamp |-> timestamp, op |-> op,
                       warehouse_ids |-> warehouse_ids, quantity |-> quantity])
    IN  Put(ops, item_id,
            IF Len(log) > OpsMaxLen
            THEN SubSeq(log, Len(log) - OpsMaxLen + 1, Len(log)) ELSE log)

RECURSIVE DictTotal(_)
\* sum(d.values())
DictTotal(d) ==
    IF DOMAIN d = {} THEN 0
    ELSE LET k == CHOOSE x \in DOMAIN d : TRUE IN d[k] + DictTotal(Drop(d, k))

\* get_global_stock
GetGlobalStock(stocks, item_id) == DictTotal(StocksOf(stocks, item_id))

NoWhCall == [op |-> "none", item |-> 0, quantity |-> 0, from |-> 0, to |-> 0, ts |-> 0]
NoWhOp ==
    [op |-> "none", item |-> 0, quantity |-> 0, from |-> 0, to |-> 0, ts |-> 0,
     hit |-> FALSE, result |-> FALSE]

\* InventorySystem.__init__
WhInit ==
    /\ item_warehouse_stocks = NoDict
    /\ item_transfers = NoDict
    /\ item_latest_ops = NoDict
    /\ warehouse_stock_movement = NoDict
    /\ request_cache = [s \in Stripes |-> <<>>]
    /\ item_warehouse_locks = [s \in Stripes |-> [owner |-> 0, depth |-> 0]]
    /\ item_locks = [s \in Stripes |-> 0]
    /\ analytics_lock = 0
    /\ whPc = [t \in Threads |-> "idle"]
    /\ whCall = [t \in Threads |-> NoWhCall]
    /\ whResult = [t \in Threads |-> None]
    /\ whOp = NoWhOp
    /\ whKeys = {}
    /\ whDuplicate = FALSE
    /\ whEvicted = {}
    /\ whApplied = NoDict
    /\ whAdded = NoDict
    /\ whRemoved = NoDict
    /\ whCalls = 0

WhFrame == UNCHANGED <<baseVars, imVars, evVars, itVars, cpVars, tkVars, moreVars>>

\* what a single-threaded call leaves alone: the locks are free again when it
\* returns
WhSeqFrame == WhFrame /\ UNCHANGED <<whLockVars, whThreadVars>>

\* the history kept when a request passes _dedup_request
WhNoteRequest(key) ==
    /\ whKeys' = whKeys \cup {key}
    /\ whDuplicate' = (whDuplicate \/ key \in whKeys)
    /\ whEvicted' = whEvicted \cup DedupEvicts(request_cache, key)

\* the history kept when a request changes the stock (applied), or does not
WhNoteApplied(applied, key, quantity) ==
    /\ whApplied' = IF applied THEN AddCount(whApplied, key, 1) ELSE whApplied
    /\ whAdded' = IF applied /\ key.op = "ADD"
                  THEN AddCount(whAdded, key.item_id, quantity) ELSE whAdded
    /\ whRemoved' = IF applied /\ key.op = "DEL"
                    THEN AddCount(whRemoved, key.item_id, quantity) ELSE whRemoved

\* add_stock(item_id, quantity, warehouse_id, timestamp), run to its return
AddStock(item_id, quantity, warehouse_id, timestamp) ==
    LET key == WH_Key("ADD", item_id, timestamp, <<warehouse_id>>)
        hit == DedupHit(request_cache, key)
    IN  /\ request_cache' = DedupAfter(request_cache, key)
        /\ whOp' = [op |-> "ADD", item |-> item_id, quantity |-> quantity,
                    from |-> warehouse_id, to |-> warehouse_id, ts |-> timestamp,
                    hit |-> hit, result |-> TRUE]
        /\ WhNoteRequest(key)
        /\ WhNoteApplied(~hit, key, quantity)
        /\ IF hit
           THEN UNCHANGED <<item_warehouse_stocks, item_transfers, item_latest_ops,
                            warehouse_stock_movement>>
           ELSE /\ item_warehouse_stocks' =
                       WH_AddStock(item_warehouse_stocks, item_id, quantity, warehouse_id)
                /\ warehouse_stock_movement' =
                       AddCount(warehouse_stock_movement, warehouse_id, quantity)
                /\ item_latest_ops' =
                       WH_AuditAppend(item_latest_ops, item_id, quantity, timestamp,
                                      "ADD", <<warehouse_id>>)
                /\ UNCHANGED item_transfers

\* remove_stock(item_id, quantity, warehouse_id, timestamp), run to its return
RemoveStock(item_id, quantity, warehouse_id, timestamp) ==
    LET key == WH_Key("DEL", item_id, timestamp, <<warehouse_id>>)
        hit == DedupHit(request_cache, key)
        ok == WH_CanRemove(item_warehouse_stocks, item_id, quantity, warehouse_id)
    IN  /\ request_cache' = DedupAfter(request_cache, key)
        /\ whOp' = [op |-> "DEL", item |-> item_id, quantity |-> quantity,
                    from |-> warehouse_id, to |-> warehouse_id, ts |-> timestamp,
                    hit |-> hit, result |-> (hit \/ ok)]
        /\ WhNoteRequest(key)
        /\ WhNoteApplied(~hit /\ ok, key, quantity)
        /\ IF hit \/ ~ok
           THEN UNCHANGED <<item_warehouse_stocks, item_transfers, item_latest_ops,
                            warehouse_stock_movement>>
           ELSE /\ item_warehouse_stocks' =
                       WH_RemoveStock(item_warehouse_stocks, item_id, quantity,
                                      warehouse_id)
                /\ item_latest_ops' =
                       WH_AuditAppend(item_latest_ops, item_id, quantity, timestamp,
                                      "DEL", <<warehouse_id>>)
                /\ warehouse_stock_movement' =
                       AddCount(warehouse_stock_movement, warehouse_id, quantity)
                /\ UNCHANGED item_transfers

\* transfer_stock(item_id, from_warehouse, to_warehouse, quantity, timestamp),
\* run to its return
TransferStock(item_id, from_warehouse, to_warehouse, quantity, timestamp) ==
    LET key == WH_Key("TFR", item_id, timestamp, <<from_warehouse, to_warehouse>>)
        hit == DedupHit(request_cache, key)
        ok == /\ from_warehouse # to_warehouse
              /\ WH_CanRemove(item_warehouse_stocks, item_id, quantity, from_warehouse)
    IN  /\ request_cache' = DedupAfter(request_cache, key)
        /\ whOp' = [op |-> "TFR", item |-> item_id, quantity |-> quantity,
                    from |-> from_warehouse, to |-> to_warehouse, ts |-> timestamp,
                    hit |-> hit, result |-> (hit \/ ok)]
        /\ WhNoteRequest(key)
        /\ WhNoteApplied(~hit /\ ok, key, quantity)
        /\ IF hit \/ ~ok
           THEN UNCHANGED <<item_warehouse_stocks, item_transfers, item_latest_ops,
                            warehouse_stock_movement>>
           ELSE /\ item_warehouse_stocks' =
                       WH_AddStock(
                           WH_RemoveStock(item_warehouse_stocks, item_id, quantity,
                                          from_warehouse),
                           item_id, quantity, to_warehouse)
                /\ item_transfers' = AddCount(item_transfers, item_id, quantity)
                /\ item_latest_ops' =
                       WH_AuditAppend(item_latest_ops, item_id, quantity, timestamp,
                                      "TFR", <<from_warehouse, to_warehouse>>)
                /\ warehouse_stock_movement' =
                       AddCount(AddCount(warehouse_stock_movement, from_warehouse,
                                         quantity),
                                to_warehouse, quantity)

AddStockCall ==
    \E item_id \in InvItems, quantity \in Quantities, warehouse_id \in Warehouses,
       timestamp \in InvTimestamps :
        /\ whCalls < MaxWhCalls
        /\ whCalls' = whCalls + 1
        /\ AddStock(item_id, quantity, warehouse_id, timestamp)
        /\ WhSeqFrame

RemoveStockCall ==
    \E item_id \in InvItems, quantity \in Quantities, warehouse_id \in Warehouses,
       timestamp \in InvTimestamps :
        /\ whCalls < MaxWhCalls
        /\ whCalls' = whCalls + 1
        /\ RemoveStock(item_id, quantity, warehouse_id, timestamp)
        /\ WhSeqFrame

TransferStockCall ==
    \E item_id \in InvItems, quantity \in Quantities, from_warehouse \in Warehouses,
       to_warehouse \in Warehouses, timestamp \in InvTimestamps :
        /\ whCalls < MaxWhCalls
        /\ whCalls' = whCalls + 1
        /\ TransferStock(item_id, from_warehouse, to_warehouse, quantity, timestamp)
        /\ WhSeqFrame

InventoryNext == AddStockCall \/ RemoveStockCall \/ TransferStockCall

----------------------------------------------------------------------------
(* InventorySystem called from several threads.  A step is one lock        *)
(* acquisition, or the statements run while holding the innermost lock     *)
(* together with the releases that follow them.  _dedup_request runs under *)
(* its own request lock, inside which no other lock is taken.              *)

WhCallInputs ==
    { [op |-> op, item |-> i, quantity |-> q, from |-> w, to |-> w, ts |-> ts] :
        op \in {"ADD", "DEL"}, i \in InvItems, q \in Quantities, w \in Warehouses,
        ts \in InvTimestamps }
    \cup { [op |-> "TFR", item |-> i, quantity |-> q, from |-> w1, to |-> w2,
            ts |-> ts] :
        i \in InvItems, q \in Quantities, w1 \in Warehouses, w2 \in Warehouses,
        ts \in InvTimestamps }
    \cup { [op |-> "WAREHOUSE", item |-> i, quantity |-> 0, from |-> w, to |-> w,
            ts |-> 0] : i \in InvItems, w \in Warehouses }
    \cup { [op |-> "GLOBAL", item |-> i, quantity |-> 0, from |-> 0, to |-> 0,
            ts |-> 0] : i \in InvItems }

\* the idempotency key of a thread's call
CallKey(c) ==
    WH_Key(c.op, c.item, c.ts, IF c.op = "TFR" THEN <<c.from, c.to>> ELSE <<c.from>>)

\* transfer_stock: the two stripes in the order from, to, one when they are equal
WH_LockOrderAsGiven(item_id, from_warehouse, to_warehouse) ==
    LET lock1 == ItemWarehouseStripe(item_id, from_warehouse)
        lock2 == ItemWarehouseStripe(item_id, to_warehouse)
    IN  IF lock1 = lock2 THEN <<lock1>> ELSE <<lock1, lock2>>

\* transfer_stock: sorted([lock1, lock2], key=id), one lock when lock1 is lock2;
\* the stripe index stands for the lock's identity
WH_LockOrder(item_id, from_warehouse, to_warehouse) ==
    LET lock1 == ItemWarehouseStripe(item_id, from_warehouse)
        lock2 == ItemWarehouseStripe(item_id, to_warehouse)
    IN  IF lock1 = lock2 THEN <<lock1>>
        ELSE IF lock1 < lock2 THEN <<lock1, lock2>> ELSE <<lock2, lock1>>

\* the item-warehouse locks a call takes, in order
CallLocks(c) == WH_LockOrder(c.item, c.from, c.to)

\* RLock.acquire by thread t, possible when free or already owned by t
RLockFree(lock, t) == lock.owner = 0 \/ lock.owner = t
RLockAcquire(lock, t) == [owner |-> t, depth |-> lock.depth + 1]

\* leaving the `with` blocks: thread t releases every item-warehouse lock it holds
ReleaseWarehouseLocks(locks, t) ==
    [s \in DOMAIN locks |-> IF locks[s].owner = t THEN [owner |-> 0, depth |-> 0]
                            ELSE locks[s]]

WhBool(b) == IF b THEN 1 ELSE 0

\* thread t returns value from its call
WhReturn(t, value) ==
    /\ whPc' = [whPc EXCEPT ![t] = "idle"]
    /\ whResult' = [whResult EXCEPT ![t] = value]
    /\ UNCHANGED whCall

WhGoto(t, label) ==
    /\ whPc' = [whPc EXCEPT ![t] = label]
    /\ UNCHANGED <<whCall, whResult>>

\* a thread starts add_stock, remove_stock, transfer_stock, get_warehouse_stock
\* or get_global_stock, while fewer than limit calls have been started
WhCallStartWithin(t, limit) ==
    \E c \in WhCallInputs :
        /\ whPc[t] = "idle"
        /\ whCalls < limit
        /\ whCalls' = whCalls + 1
        /\ whCall' = [whCall EXCEPT ![t] = c]
        /\ whPc' = [whPc EXCEPT ![t] =
                CASE c.op = "GLOBAL" -> "lock_item_read"
                  [] c.op = "WAREHOUSE" -> "lock_first"
                  [] OTHER -> "dedup"]
        /\ UNCHANGED <<whResult, whDataVars, whLockVars, whGhostVars, whOp>>
        /\ WhFrame

\* `if self._dedup_request(...): return True`, and transfer_stock's
\* `if from_warehouse == to_warehouse: return False`
WhDedup(t) ==
    LET c == whCall[t]
        key == CallKey(c)
    IN  /\ whPc[t] = "dedup"
        /\ request_cache' = DedupAfter(request_cache, key)
        /\ WhNoteRequest(key)
        /\ IF DedupHit(request_cache, key) THEN WhReturn(t, 1)
           ELSE IF c.op = "TFR" /\ c.from = c.to THEN WhReturn(t, 0)
           ELSE WhGoto(t, "lock_first")
        /\ UNCHANGED <<item_warehouse_stocks, item_transfers, item_latest_ops,
                       warehouse_stock_movement, whLockVars, whApplied, whAdded,
                       whRemoved, whOp, whCalls>>
        /\ WhFrame

\* `with self._get_item_warehouse_lock(...)`, `with lock1`, `with locks[0]`
WhLockFirst(t) ==
    LET c == whCall[t]
        s == CallLocks(c)[1]
    IN  /\ whPc[t] = "lock_first"
        /\ RLockFree(item_warehouse_locks[s], t)
        /\ item_warehouse_locks' =
               [item_warehouse_locks EXCEPT ![s] = RLockAcquire(@, t)]
        /\ WhGoto(t, IF Len(CallLocks(c)) = 2 THEN "lock_second"
                     ELSE IF c.op = "WAREHOUSE" THEN "read_warehouse"
                     ELSE "lock_item")
        /\ UNCHANGED <<whDataVars, item_locks, analytics_lock, whGhostVars, whOp,
                       whCalls>>
        /\ WhFrame

\* `with locks[0], locks[1]`: the second lock
WhLockSecond(t) ==
    LET s == CallLocks(whCall[t])[2]
    IN  /\ whPc[t] = "lock_second"
        /\ RLockFree(item_warehouse_locks[s], t)
        /\ item_warehouse_locks' =
               [item_warehouse_locks EXCEPT ![s] = RLockAcquire(@, t)]
        /\ WhGoto(t, "lock_item")
        /\ UNCHANGED <<whDataVars, item_locks, analytics_lock, whGhostVars, whOp,
                       whCalls>>
        /\ WhFrame

\* `with self._get_item_lock(item_id)` in _add_stock, _remove_stock,
\* _add_item_audit_op and get_global_stock
WhLockItem(t) ==
    LET s == ItemStripe(whCall[t].item)
    IN  /\ whPc[t] \in {"lock_item", "lock_item_add", "lock_item_audit",
                        "lock_item_read"}
        /\ item_locks[s] = 0
        /\ item_locks' = [item_locks EXCEPT ![s] = t]
        /\ WhGoto(t, CASE whPc[t] = "lock_item" -> "apply"
                       [] whPc[t] = "lock_item_add" -> "apply_add"
                       [] whPc[t] = "lock_item_audit" -> "audit"
                       [] OTHER -> "read_global")
        /\ UNCHANGED <<whDataVars, item_warehouse_locks, analytics_lock,
                       whGhostVars, whOp, whCalls>>
        /\ WhFrame

\* the body of _add_stock (add_stock) or of _remove_stock (remove_stock and
\* transfer_stock), under the item lock
WhApply(t) ==
    LET c == whCall[t]
        ok == c.op = "ADD"
              \/ WH_CanRemove(item_warehouse_stocks, c.item, c.quantity, c.from)
    IN  /\ whPc[t] = "apply"
        /\ item_warehouse_stocks' =
               IF c.op = "ADD"
               THEN WH_AddStock(item_warehouse_stocks, c.item, c.quantity, c.from)
               ELSE WH_RemoveStock(item_warehouse_stocks, c.item, c.quantity, c.from)
        /\ item_locks' = [item_locks EXCEPT ![ItemStripe(c.item)] = 0]
        /\ item_warehouse_locks' =
               IF c.op = "TFR" /\ ok THEN item_warehouse_locks
               ELSE ReleaseWarehouseLocks(item_warehouse_locks, t)
        /\ WhNoteApplied(ok, CallKey(c), c.quantity)
        /\ IF ~ok THEN WhReturn(t, 0)
           ELSE WhGoto(t, CASE c.op = "ADD" -> "lock_analytics"
                            [] c.op = "DEL" -> "lock_item_audit"
                            [] OTHER -> "lock_item_add")
        /\ UNCHANGED <<item_transfers, item_latest_ops, warehouse_stock_movement,
                       request_cache, analytics_lock, whKeys, whDuplicate,
                       whEvicted, whOp, whCalls>>
        /\ WhFrame

\* _transfer_stock: the body of _add_stock for the destination
WhApplyAdd(t) ==
    LET c == whCall[t]
    IN  /\ whPc[t] = "apply_add"
        /\ item_warehouse_stocks' =
               WH_AddStock(item_warehouse_stocks, c.item, c.quantity, c.to)
        /\ item_locks' = [item_locks EXCEPT ![ItemStripe(c.item)] = 0]
        /\ WhGoto(t, "lock_analytics_transfer")
        /\ UNCHANGED <<item_transfers, item_latest_ops, warehouse_stock_movement,
                       request_cache, item_warehouse_locks, analytics_lock,
                       whGhostVars, whOp, whCalls>>
        /\ WhFrame

\* `with self.analytics_lock`
WhLockAnalytics(t) ==
    /\ whPc[t] \in {"lock_analytics_transfer", "lock_analytics", "lock_analytics_to"}
    /\ analytics_lock = 0
    /\ analytics_lock' = t
    /\ WhGoto(t, CASE whPc[t] = "lock_analytics_transfer" -> "count_transfer"
                   [] whPc[t] = "lock_analytics" -> "count"
                   [] OTHER -> "count_to")
    /\ UNCHANGED <<whDataVars, item_warehouse_locks, item_locks, whGhostVars, whOp,
                   whCalls>>
    /\ WhFrame

\* _transfer_stock: self.item_transfers[item_id] += quantity, then the item-
\* warehouse locks are released
WhCountTransfer(t) ==
    LET c == whCall[t]
    IN  /\ whPc[t] = "count_transfer"
        /\ item_transfers' = AddCount(item_transfers, c.item, c.quantity)
        /\ analytics_lock' = 0
        /\ item_warehouse_locks' = ReleaseWarehouseLocks(item_warehouse_locks, t)
        /\ WhGoto(t, "lock_item_audit")
        /\ UNCHANGED <<item_warehouse_stocks, item_latest_ops,
                       warehouse_stock_movement, request_cache, item_locks,
                       whGhostVars, whOp, whCalls>>
        /\ WhFrame

\* _add_warehouse_stock_movement(warehouse_id, quantity) for the call's
\* warehouse, or for from_warehouse in transfer_stock
WhCount(t) ==
    LET c == whCall[t]
    IN  /\ whPc[t] = "count"
        /\ warehouse_stock_movement' =
               AddCount(warehouse_stock_movement, c.from, c.quantity)
        /\ analytics_lock' = 0
        /\ CASE c.op = "ADD" -> WhGoto(t, "lock_item_audit")
             [] c.op = "DEL" -> WhReturn(t, 1)
             [] OTHER -> WhGoto(t, "lock_analytics_to")
        /\ UNCHANGED <<item_warehouse_stocks, item_transfers, item_latest_ops,
                       request_cache, item_warehouse_locks, item_locks,
                       whGhostVars, whOp, whCalls>>
        /\ WhFrame

\* transfer_stock: _add_warehouse_stock_movement(to_warehouse, quantity)
WhCountTo(t) ==
    LET c == whCall[t]
    IN  /\ whPc[t] = "count_to"
        /\ warehouse_stock_movement' =
               AddCount(warehouse_stock_movement, c.to, c.quantity)
        /\ analytics_lock' = 0
        /\ WhReturn(t, 1)
        /\ UNCHANGED <<item_warehouse_stocks, item_transfers, item_latest_ops,
                       request_cache, item_warehouse_locks, item_locks,
                       whGhostVars, whOp, whCalls>>
        /\ WhFrame

\* the body of _add_item_audit_op
WhAudit(t) ==
    LET c == whCall[t]
    IN  /\ whPc[t] = "audit"
        /\ item_latest_ops' =
               WH_AuditAppend(item_latest_ops, c.item, c.quantity, c.ts, c.op,
                              CallKey(c).warehouse_ids)
        /\ item_locks' = [item_locks EXCEPT ![ItemStripe(c.item)] = 0]
        /\ IF c.op = "ADD" THEN WhReturn(t, 1) ELSE WhGoto(t, "lock_analytics")
        /\ UNCHANGED <<item_warehouse_stocks, item_transfers,
                       warehouse_stock_movement, request_cache,
                       item_warehouse_locks, analytics_lock, whGhostVars, whOp,
                       whCalls>>
        /\ WhFrame

\* get_global_stock: the read under the item lock
WhReadGlobal(t) ==
    /\ whPc[t] = "read_global"
    /\ item_locks' = [item_locks EXCEPT ![ItemStripe(whCall[t].item)] = 0]
    /\ WhReturn(t, GetGlobalStock(item_warehouse_stocks, whCall[t].item))
    /\ UNCHANGED <<whDataVars, item_warehouse_locks, analytics_lock, whGhostVars,
                   whOp, whCalls>>
    /\ WhFrame

\* get_warehouse_stock: the read under the item-warehouse lock
WhReadWarehouse(t) ==
    /\ whPc[t] = "read_warehouse"
    /\ item_warehouse_locks' = ReleaseWarehouseLocks(item_warehouse_locks, t)
    /\ WhReturn(t, StockAt(item_warehouse_stocks, whCall[t].item, whCall[t].from))
    /\ UNCHANGED <<whDataVars, item_locks, analytics_lock, whGhostVars, whOp,
                   whCalls>>
    /\ WhFrame

WhCallStart(t) == WhCallStartWithin(t, MaxWhCalls)

WhFairCallStart(t) == WhCallStartWithin(t, MaxWhFairCalls)

\* a step of a call that has started
WhCallStep(t) ==
    \/ WhDedup(t)
    \/ WhLockFirst(t)
    \/ WhLockSecond(t)
    \/ WhLockItem(t)
    \/ WhApply(t)
    \/ WhApplyAdd(t)
    \/ WhLockAnalytics(t)
    \/ WhCountTransfer(t)
    \/ WhCount(t)
    \/ WhCountTo(t)
    \/ WhAudit(t)
    \/ WhReadGlobal(t)
    \/ WhReadWarehouse(t)

WhThreadStep(t) == WhCallStart(t) \/ WhCallStep(t)

WhFairThreadStep(t) == WhFairCallStart(t) \/ WhCallStep(t)

InventoryThreadsNext == \E t \in Threads : WhThreadStep(t)

InventoryFairNext == \E t \in Threads : WhFairThreadStep(t)

----------------------------------------------------------------------------
(* The bounded top-K heaps: TrendingTracker.top_k_global_heap,              *)
(* OrderBook.global_heap, RideSharingAnalytics.top_k_drivers and            *)
(* HospitalSystem.top_k_doctors / top_k_hospitals, each offered keys and    *)
(* scores through its own update function.  A run constructs one of the    *)
(* four classes and updates its heaps.  Every update runs as one step:      *)
(* under global_lock, top_k_drivers_lock, or in the single-threaded         *)
(* HospitalSystem.                                                          *)

TopKeys == 1..NumTopKeys
Scores == 0..MaxScore

\* RideSharingAnalytics._update_top_k_drivers, replacing the lowest on a tie too
RS_UpdateTopKDriversOnTie(heap, driver_id, total_distance) ==
    IF Cardinality(DOMAIN heap) < TopKDefault \/ driver_id \in DOMAIN heap
    THEN TT_HeapSet(heap, driver_id, total_distance)
    ELSE IF total_distance >= heap[TT_HeapMinKey(heap)]
         THEN TT_HeapSet([d \in DOMAIN heap \ {TT_HeapMinKey(heap)} |-> heap[d]],
                         driver_id, total_distance)
         ELSE heap

\* RideSharingAnalytics._update_top_k_drivers, inside top_k_drivers_lock
RS_UpdateTopKDrivers(heap, driver_id, total_distance) ==
    IF Cardinality(DOMAIN heap) < TopKDefault \/ driver_id \in DOMAIN heap
    THEN TT_HeapSet(heap, driver_id, total_distance)
    ELSE IF total_distance > heap[TT_HeapMinKey(heap)]
         THEN TT_HeapSet([d \in DOMAIN heap \ {TT_HeapMinKey(heap)} |-> heap[d]],
                         driver_id, total_distance)
         ELSE heap

\* HospitalSystem._update_top_k_doctors
HS_UpdateTopKDoctors(heap, doctor_id, num_treated) ==
    IF Cardinality(DOMAIN heap) < TopKDefault \/ doctor_id \in DOMAIN heap
    THEN TT_HeapSet(heap, doctor_id, num_treated)
    ELSE IF num_treated > heap[TT_HeapMinKey(heap)]
         THEN TT_HeapSet([d \in DOMAIN heap \ {TT_HeapMinKey(heap)} |-> heap[d]],
                         doctor_id, num_treated)
         ELSE heap

\* HospitalSystem._update_top_k_hospitals
HS_UpdateTopKHospitals(heap, hospital, num_discharged) ==
    IF Cardinality(DOMAIN heap) < TopKDefault \/ hospital \in DOMAIN heap
    THEN TT_HeapSet(heap, hospital, num_discharged)
    ELSE IF num_discharged > heap[TT_HeapMinKey(heap)]
         THEN TT_HeapSet([h \in DOMAIN heap \ {TT_HeapMinKey(heap)} |-> heap[h]],
                         hospital, num_discharged)
         ELSE heap

\* the class that owns each heap
TkOwner ==
    [trending |-> "TrendingTracker", book |-> "OrderBook",
     drivers |-> "RideSharingAnalytics", doctors |-> "HospitalSystem",
     hospitals |-> "HospitalSystem"]

TkClasses == {"TrendingTracker", "OrderBook", "RideSharingAnalytics", "HospitalSystem"}

\* the five heaps by name, and the capacity each is built with
TkHeaps ==
    [trending |-> tk_top_k_global_heap, book |-> tk_global_heap,
     drivers |-> top_k_drivers, doctors |-> top_k_doctors,
     hospitals |-> top_k_hospitals]

TkCapacity ==
    [trending |-> TT_K, book |-> K, drivers |-> TopKDefault,
     doctors |-> TopKDefault, hospitals |-> TopKDefault]

NoTkOp == [heap |-> "none", key |-> 0, score |-> 0, tracked |-> FALSE, full |-> FALSE]

NoTkQuery == [heap |-> "none", k |-> 0, result |-> << >>]

\* list(heap.items()): the (key, score) pairs in the dictionary's iteration
\* order, for which the model takes the order of the keys
RECURSIVE HeapItems(_)
HeapItems(heap) ==
    IF DOMAIN heap = {} THEN << >>
    ELSE LET first == CHOOSE k \in DOMAIN heap : \A j \in DOMAIN heap : k <= j
         IN  <<<<first, heap[first]>>>> \o HeapItems(HeapDel(heap, first))

\* where sorted() puts an item that came before all of `sorted_rest`: in front
\* of the first entry whose sort key is not smaller (the sort is stable)
RECURSIVE InsertBySortKey(_, _, _)
InsertBySortKey(item, sorted_rest, sign) ==
    IF sorted_rest = << >> THEN <<item>>
    ELSE IF sign * Head(sorted_rest)[2] >= sign * item[2]
         THEN <<item>> \o sorted_rest
         ELSE <<Head(sorted_rest)>> \o InsertBySortKey(item, Tail(sorted_rest), sign)

\* sorted(items, key=lambda pair: sign * pair[1])
RECURSIVE SortedBy(_, _)
SortedBy(items, sign) ==
    IF items = << >> THEN << >>
    ELSE InsertBySortKey(Head(items), SortedBy(Tail(items), sign), sign)

\* sorted(..., key=lambda price_quantity: price_quantity[1])
SortedByCountAscending(items) == SortedBy(items, 1)

\* sorted(..., key=lambda price_quantity: -price_quantity[1])
SortedByCount(items) == SortedBy(items, -1)

\* seq[:k] for k >= 0
Prefix(seq, k) == SubSeq(seq, 1, IF k < Len(seq) THEN k ELSE Len(seq))

\* OrderBook.get_top_k_prices_global
GetTopKPricesGlobal(heap, k) ==
    Prefix(SortedByCount(HeapItems(heap)), IF K < k THEN K ELSE k)

\* TrendingTracker.get_top_k_global_fast
GetTopKGlobalFast(heap) == SortedByCount(HeapItems(heap))

\* the heaps as the constructors leave them
TkInit ==
    /\ tkClass = "none"
    /\ tk_top_k_global_heap = NoHeap
    /\ tk_global_heap = NoHeap
    /\ top_k_drivers = NoHeap
    /\ top_k_doctors = NoHeap
    /\ top_k_hospitals = NoHeap
    /\ tkOp = NoTkOp
    /\ tkCalls = 0
    /\ tkOffered = {}
    /\ tkQuery = NoTkQuery

TkFrame == UNCHANGED <<baseVars, imVars, evVars, itVars, cpVars, whVars, moreVars>>

\* the bookkeeping of one update of the heap called name
TkNote(name, key, score) ==
    /\ tkClass = TkOwner[name]
    /\ tkCalls < MaxTopKCalls
    /\ UNCHANGED tkClass
    /\ tkCalls' = tkCalls + 1
    /\ tkOffered' = tkOffered \cup {key}
    /\ UNCHANGED tkQuery
    /\ tkOp' = [heap |-> name, key |-> key, score |-> score,
                tracked |-> key \in DOMAIN TkHeaps[name],
                full |-> Cardinality(DOMAIN TkHeaps[name]) >= TkCapacity[name]]
    /\ TkFrame

\* __init__ of one of the four classes
TkConstruct ==
    /\ tkClass = "none"
    /\ tkClass' \in TkClasses
    /\ UNCHANGED <<tk_top_k_global_heap, tk_global_heap, top_k_drivers, top_k_doctors,
                   top_k_hospitals, tkOp, tkCalls, tkOffered, tkQuery>>
    /\ TkFrame

TrendingOffer ==
    \E hashtag \in TopKeys, count \in Scores :
        /\ TkNote("trending", hashtag, count)
        /\ tk_top_k_global_heap' =
               TT_UpdateGlobalHeap(tk_top_k_global_heap, hashtag, count)
        /\ UNCHANGED <<tk_global_heap, top_k_drivers, top_k_doctors, top_k_hospitals>>

BookOffer ==
    \E rounded_price \in TopKeys, count \in Scores :
        /\ TkNote("book", rounded_price, count)
        /\ tk_global_heap' = UpdateGlobalHeap(tk_global_heap, rounded_price, count)
        /\ UNCHANGED <<tk_top_k_global_heap, top_k_drivers, top_k_doctors,
                       top_k_hospitals>>

DriversOffer ==
    \E driver_id \in TopKeys, total_distance \in Scores :
        /\ TkNote("drivers", driver_id, total_distance)
        /\ top_k_drivers' = RS_UpdateTopKDrivers(top_k_drivers, driver_id, total_distance)
        /\ UNCHANGED <<tk_top_k_global_heap, tk_global_heap, top_k_doctors,
                       top_k_hospitals>>

DoctorsOffer ==
    \E doctor_id \in TopKeys, num_treated \in Scores :
        /\ TkNote("doctors", doctor_id, num_treated)
        /\ top_k_doctors' = HS_UpdateTopKDoctors(top_k_doctors, doctor_id, num_treated)
        /\ UNCHANGED <<tk_top_k_global_heap, tk_global_heap, top_k_drivers,
                       top_k_hospitals>>

HospitalsOffer ==
    \E hospital \in TopKeys, num_discharged \in Scores :
        /\ TkNote("hospitals", hospital, num_discharged)
        /\ top_k_hospitals' =
               HS_UpdateTopKHospitals(top_k_hospitals, hospital, num_discharged)
        /\ UNCHANGED <<tk_top_k_global_heap, tk_global_heap, top_k_drivers,
                       top_k_doctors>>

\* the k of a top-K query
QueryKs == 0..(K + 1)

\* a query changes nothing but its caller's result
TkQueryFrame ==
    /\ UNCHANGED <<tkClass, tk_top_k_global_heap, tk_global_heap, top_k_drivers,
                   top_k_doctors, top_k_hospitals, tkOp, tkCalls, tkOffered>>
    /\ TkFrame

BookTopKQuery ==
    \E k \in QueryKs :
        /\ tkClass = "OrderBook"
        /\ tkQuery' = [heap |-> "book", k |-> k,
                       result |-> GetTopKPricesGlobal(tk_global_heap, k)]
        /\ TkQueryFrame

TrendingTopKQuery ==
    /\ tkClass = "TrendingTracker"
    /\ tkQuery' = [heap |-> "trending", k |-> 0,
                   result |-> GetTopKGlobalFast(tk_top_k_global_heap)]
    /\ TkQueryFrame

TopKNext ==
    \/ TkConstruct
    \/ TrendingOffer \/ BookOffer \/ DriversOffer \/ DoctorsOffer \/ HospitalsOffer
    \/ BookTopKQuery \/ TrendingTopKQuery

----------------------------------------------------------------------------
(* Specification SpecBookHistory: the OrderBook calls of SpecBook, each one *)
(* remembering what it found, so that a property can relate the book after  *)
(* a call to the book before the call that preceded it.  The timestamps are *)
(* those of the two eras that share ring slot 0.                            *)

HistoryTimestamps == {0, WindowSeconds}

\* OrderBook.get_total_quantity for every rounded price
TotalQuantities == [p \in RoundedPrices |-> OB_Total(price_buckets[p])]

BhInit ==
    bkBefore = [totals |-> [p \in RoundedPrices |-> 0], fresh |-> FALSE]

\* what a call on order_id finds
BhNote(order_id) ==
    /\ bookCalls < MaxHistoryCalls
    /\ bookCalls' = bookCalls + 1
    /\ bkBefore' = [totals |-> TotalQuantities,
                    fresh |-> storage[order_id] = NoOrder]
    /\ UNCHANGED <<obRing, seqRingVars, addVars, lockVars, imVars, hcVars, ttVars,
                   evVars, itVars, cpVars, whVars, tkVars, cptVars, rateVars,
                   vtVars, twVars, smVars, lastVars>>

HistoryRecordOrder ==
    \E o \in OrderIds, p \in PriceInputs, q \in Counts, ts \in HistoryTimestamps :
        RecordOrder(o, p, q, ts) /\ BhNote(o)

HistoryUpdateOrder ==
    \E o \in OrderIds, p \in PriceInputs, q \in Counts, ts \in HistoryTimestamps :
        UpdateOrder(o, p, q, ts) /\ BhNote(o)

HistoryCancelOrder ==
    \E o \in OrderIds, ts \in HistoryTimestamps :
        CancelOrder(o, ts) /\ BhNote(o)

BookHistoryNext == HistoryRecordOrder \/ HistoryUpdateOrder \/ HistoryCancelOrder

----------------------------------------------------------------------------
(* Specification SpecCarparkThreads: threads inside                         *)
(* CarparkTracker.record_event.  Every `with lock:` block of the method     *)
(* takes no further lock and is one step; the unlocked reads of             *)
(* current_time are steps of their own.                                     *)

NoCpCall == [lot |-> 0, car |-> 0, type |-> "none", ts |-> 0]
NothingFound == [full |-> FALSE, inside |-> FALSE]

CptInit ==
    /\ cptPc = [t \in Threads |-> "idle"]
    /\ cptCall = [t \in Threads |-> NoCpCall]
    /\ cptCalls = [t \in Threads |-> 0]
    /\ cptFound = [t \in Threads |-> NothingFound]
    /\ cptNet = [l \in Lots |-> [c \in Cars |-> 0]]

CptFrame ==
    UNCHANGED <<baseVars, imVars, evVars, itVars, whVars, tkVars, bhVars, rateVars,
                vtVars, twVars, smVars, lastVars, cpOp, cpDropped, cpCalls>>

CptGoto(t, label) == cptPc' = [cptPc EXCEPT ![t] = label]

\* record_event up to _record_occupancy: the two early returns
CptStart(t) ==
    \E lot_id \in LotInputs, car_id \in Cars, event_type \in EventKinds,
       timestamp \in CpTimestamps :
        /\ cptPc[t] = "idle"
        /\ cptCalls[t] < MaxCpCallsPerThread
        /\ cptCalls' = [cptCalls EXCEPT ![t] = @ + 1]
        /\ cptCall' = [cptCall EXCEPT ![t] =
                          [lot |-> lot_id, car |-> car_id, type |-> event_type,
                           ts |-> timestamp]]
        /\ cptFound' = [cptFound EXCEPT ![t] = NothingFound]
        /\ IF lot_id \notin Lots \/ CP_TooLate(timestamp, cp_current_time)
           THEN CptGoto(t, "idle")
           ELSE CptGoto(t, "occupancy")
        /\ UNCHANGED <<lot_occupancy, enter_time_buckets, exit_time_buckets,
                       occupancy_snapshots, cp_current_time, cptNet>>
        /\ CptFrame

\* _record_occupancy, under the lot's lock
CptRecordOccupancy(t) ==
    LET c == cptCall[t]
        lot == IF c.lot \in DOMAIN lot_occupancy THEN lot_occupancy[c.lot] ELSE {}
        ok == CP_OccupancyOK(lot, c.car, c.type)
    IN  /\ cptPc[t] = "occupancy"
        /\ lot_occupancy' = Put(lot_occupancy, c.lot,
                                CP_OccupancyAfter(lot, c.car, c.type))
        /\ cptFound' = [cptFound EXCEPT ![t] =
                           [full |-> Cardinality(lot) >= LotCapacity,
                            inside |-> c.car \in lot]]
        /\ cptNet' = IF ~ok THEN cptNet
                     ELSE [cptNet EXCEPT ![c.lot][c.car] =
                              IF c.type = "ENTER" THEN @ + 1 ELSE @ - 1]
        /\ IF ok THEN CptGoto(t, "snapshot") ELSE CptGoto(t, "idle")
        /\ UNCHANGED <<enter_time_buckets, exit_time_buckets, occupancy_snapshots,
                       cp_current_time, cptCall, cptCalls>>
        /\ CptFrame

\* _record_occupancy_snapshot, under the lot's lock when the timestamp is a
\* multiple of 60
CptRecordSnapshot(t) ==
    LET c == cptCall[t]
    IN  /\ cptPc[t] = "snapshot"
        /\ occupancy_snapshots' =
               CP_SnapshotsAfter(occupancy_snapshots, c.lot, c.ts,
                                 Cardinality(lot_occupancy[c.lot]), cp_current_time)
        /\ CptGoto(t, "add")
        /\ UNCHANGED <<lot_occupancy, enter_time_buckets, exit_time_buckets,
                       cp_current_time, cptCall, cptCalls, cptFound, cptNet>>
        /\ CptFrame

\* record_event: the add to the enter or the exit ring buffer
CptRingAdd(t) ==
    LET c == cptCall[t]
    IN  /\ cptPc[t] = "add"
        /\ IF c.type = "ENTER"
           THEN /\ enter_time_buckets' =
                       [enter_time_buckets EXCEPT ![c.lot] = CP_RingAdd(@, c.ts, 1)]
                /\ UNCHANGED exit_time_buckets
           ELSE /\ exit_time_buckets' =
                       [exit_time_buckets EXCEPT ![c.lot] = CP_RingAdd(@, c.ts, 1)]
                /\ UNCHANGED enter_time_buckets
        /\ CptGoto(t, "time")
        /\ UNCHANGED <<lot_occupancy, occupancy_snapshots, cp_current_time,
                       cptCall, cptCalls, cptFound, cptNet>>
        /\ CptFrame

\* record_event: current_time = max(current_time, timestamp) under global_lock
CptAdvanceTime(t) ==
    /\ cptPc[t] = "time"
    /\ cp_current_time' = Max2(cp_current_time, cptCall[t].ts)
    /\ CptGoto(t, "idle")
    /\ UNCHANGED <<lot_occupancy, enter_time_buckets, exit_time_buckets,
                   occupancy_snapshots, cptCall, cptCalls, cptFound, cptNet>>
    /\ CptFrame

CarparkThreadsNext ==
    \E t \in Threads :
        \/ CptStart(t)
        \/ CptRecordOccupancy(t)
        \/ CptRecordSnapshot(t)
        \/ CptRingAdd(t)
        \/ CptAdvanceTime(t)

----------------------------------------------------------------------------
(* Specification SpecCarparkRate: CarparkTracker(capacities={"A": 100},     *)
(* bucket_size=10) as test_occupancy_rate builds it, with the window of 60  *)
(* seconds, driven by record_event calls on lot A and queried with          *)
(* get_occupancy_rate_rb.  The rate sum/len/capacity is kept as the list of *)
(* occupancy samples it averages.                                           *)

RateConfig == [bucket_size |-> 10, window_seconds |-> 60, capacity |-> 100]

\* CarparkTracker.__init__: max_delay
RateMaxDelay == 30

RateCars == 1..NumRateCars
RateTimestamps == {95, 100}
RateSpans == {10, 20, 30}

RT_NumBuckets == RateConfig.window_seconds \div RateConfig.bucket_size + 1

\* RingBuffer._get_bucket_start_time
RT_GetBucketStartTime(timestamp) ==
    (timestamp \div RateConfig.bucket_size) * RateConfig.bucket_size

\* RingBuffer._get_bucket_index
RT_GetBucketIndex(timestamp) ==
    (timestamp \div RateConfig.bucket_size) % RT_NumBuckets

\* RingBuffer.add
RT_RingAdd(ring, timestamp, quantity) ==
    [ring EXCEPT ![RT_GetBucketIndex(timestamp)] =
        CP_BucketAdd(@, RT_GetBucketStartTime(timestamp), quantity)]

\* RingBuffer.total(cutoff), the loop over buckets 0..n-1
RECURSIVE RT_TotalLoop(_, _, _)
RT_TotalLoop(ring, cutoff_start_time, n) ==
    IF n = 0 THEN 0
    ELSE RT_TotalLoop(ring, cutoff_start_time, n - 1)
         + (IF ring[n - 1].start_time >= cutoff_start_time
            THEN ring[n - 1].quantity ELSE 0)

\* RingBuffer.total(cutoff) comparing with the cutoff itself
RT_RingTotalFromCutoff(ring, cutoff) ==
    RT_TotalLoop(ring, cutoff, RT_NumBuckets)

RT_RingTotal(ring, cutoff) ==
    RT_TotalLoop(ring, RT_GetBucketStartTime(cutoff), RT_NumBuckets)

\* the while loop of get_occupancy_rate_rb with a strict comparison
RECURSIVE RT_WindowOccupanciesStrict(_, _, _, _, _, _)
RT_WindowOccupanciesStrict(enter, exit, curr, cutoff, prev_change, occupancies) ==
    IF ~(curr - RateConfig.bucket_size > cutoff) THEN occupancies
    ELSE LET curr_change == RT_RingTotal(enter, curr) - RT_RingTotal(exit, curr)
             diff == curr_change - prev_change
             last == occupancies[Len(occupancies)]
         IN  RT_WindowOccupanciesStrict(enter, exit, curr - RateConfig.bucket_size,
                 cutoff, curr_change, Append(occupancies, Max2(0, last - diff)))

\* the while loop of get_occupancy_rate_rb: window_occupancies
RECURSIVE RT_WindowOccupancies(_, _, _, _, _, _)
RT_WindowOccupancies(enter, exit, curr, cutoff, prev_change, occupancies) ==
    IF ~(curr - RateConfig.bucket_size >= cutoff) THEN occupancies
    ELSE LET curr_change == RT_RingTotal(enter, curr) - RT_RingTotal(exit, curr)
             diff == curr_change - prev_change
             last == occupancies[Len(occupancies)]
         IN  RT_WindowOccupancies(enter, exit, curr - RateConfig.bucket_size,
                 cutoff, curr_change, Append(occupancies, Max2(0, last - diff)))

\* CarparkTracker.get_occupancy_rate_rb: the samples whose mean, divided by
\* the capacity, is returned
GetOccupancyRateRb(tracker, last_t_seconds) ==
    LET now == tracker.current_time
        span1 == Max2(RateConfig.bucket_size, last_t_seconds)
        span == IF RateConfig.window_seconds < span1
                THEN RateConfig.window_seconds ELSE span1
        cutoff == now - span
    IN  RT_WindowOccupancies(tracker.enter, tracker.exit, now, cutoff, 0,
                             <<Cardinality(tracker.lot)>>)

NoRateLog == [enters95 |-> 0, others |-> 0]

\* no get_occupancy_rate_rb has returned
NoRateQuery == [last_t |-> 0, samples |-> << >>, log |-> NoRateLog]

RateInit ==
    /\ rateTracker = [known |-> FALSE, lot |-> {},
                      enter |-> [i \in 0..(RT_NumBuckets - 1) |-> EmptyBucket],
                      exit |-> [i \in 0..(RT_NumBuckets - 1) |-> EmptyBucket],
                      snapshots |-> << >>, current_time |-> 0]
    /\ rateLog = NoRateLog
    /\ rateQuery = NoRateQuery

RateFrame ==
    UNCHANGED <<baseVars, imVars, evVars, itVars, cpVars, whVars, tkVars, bhVars,
                cptVars, vtVars, twVars, smVars, lastVars>>

\* _record_occupancy with the capacity of lot A
RT_OccupancyOK(lot, car_id, event_type) ==
    IF event_type = "ENTER"
    THEN ~(Cardinality(lot) >= RateConfig.capacity \/ car_id \in lot)
    ELSE car_id \in lot

\* _record_occupancy_snapshot
RT_SnapshotsAfter(snapshots, timestamp, occupancy, now) ==
    IF timestamp % SnapshotPeriod # 0 THEN snapshots
    ELSE SelectSeq(Append(snapshots, <<timestamp, occupancy>>),
                   LAMBDA sn : sn[1] > now - RateConfig.window_seconds)

\* CarparkTracker.record_event("A", car_id, event_type, timestamp)
RT_RecordEvent(tracker, car_id, event_type, timestamp) ==
    IF timestamp < tracker.current_time - RateMaxDelay THEN tracker
    ELSE IF ~RT_OccupancyOK(tracker.lot, car_id, event_type)
         THEN [tracker EXCEPT !.known = TRUE]
         ELSE LET lot1 == IF event_type = "ENTER" THEN tracker.lot \cup {car_id}
                          ELSE tracker.lot \ {car_id}
              IN  [known |-> TRUE,
                   lot |-> lot1,
                   enter |-> IF event_type = "ENTER"
                             THEN RT_RingAdd(tracker.enter, timestamp, 1)
                             ELSE tracker.enter,
                   exit |-> IF event_type = "ENTER" THEN tracker.exit
                            ELSE RT_RingAdd(tracker.exit, timestamp, 1),
                   snapshots |-> RT_SnapshotsAfter(tracker.snapshots, timestamp,
                                     Cardinality(lot1), tracker.current_time),
                   current_time |-> Max2(tracker.current_time, timestamp)]

RateRecordEvent ==
    \E car_id \in RateCars, event_type \in EventKinds, timestamp \in RateTimestamps :
        LET applied == /\ ~(timestamp < rateTracker.current_time - RateMaxDelay)
                       /\ RT_OccupancyOK(rateTracker.lot, car_id, event_type)
        IN  /\ rateLog.enters95 + rateLog.others < MaxRateCalls
            /\ rateTracker' = RT_RecordEvent(rateTracker, car_id, event_type, timestamp)
            /\ rateLog' = IF applied /\ event_type = "ENTER" /\ timestamp = 95
                          THEN [rateLog EXCEPT !.enters95 = @ + 1]
                          ELSE [rateLog EXCEPT !.others = @ + 1]
            /\ UNCHANGED rateQuery
            /\ RateFrame

\* get_occupancy_rate_rb("A", last_t_seconds); it reads lot_occupancy["A"],
\* which exists once _record_occupancy has run for the lot
RateQueryCall ==
    \E last_t_seconds \in RateSpans :
        /\ rateTracker.known
        /\ rateQuery' = [last_t |-> last_t_seconds,
                         samples |-> GetOccupancyRateRb(rateTracker, last_t_seconds),
                         log |-> rateLog]
        /\ UNCHANGED <<rateTracker, rateLog>>
        /\ RateFrame

CarparkRateNext == RateRecordEvent \/ RateQueryCall

\* Specification SpecCarparkSamples: the same tracker as
\* test_occupancy_rate_ringbuffer drives it, with events at more timestamps
\* and queries over more spans; the events come with non-decreasing
\* timestamps, as in the test.
SampleCars == 1..NumSampleCars
SampleTimestamps == {100, 110, 120, 125}
SampleSpans == {5, 30, 35, 70}

\* the lowest car of a set of cars
LowestCar(cars) == CHOOSE c \in cars : \A d \in cars : c <= d

\* the car the next event names: the lowest car outside the lot enters, the
\* lowest car in the lot exits
NextCars(lot, event_type) ==
    {LowestCar(cars) :
        cars \in {IF event_type = "ENTER" THEN SampleCars \ lot ELSE lot} \ {{}}}

\* record_event("A", car_id, event_type, timestamp)
SamplesRecordEvent ==
    \E event_type \in EventKinds, timestamp \in SampleTimestamps :
      \E car_id \in NextCars(rateTracker.lot, event_type) :
        /\ rateLog.others < MaxSampleCalls
        /\ timestamp >= rateTracker.current_time
        /\ rateTracker' = RT_RecordEvent(rateTracker, car_id, event_type, timestamp)
        /\ rateLog' = [rateLog EXCEPT !.others = @ + 1]
        /\ rateQuery' = NoRateQuery
        /\ RateFrame

\* get_occupancy_rate_rb("A", last_t_seconds)
SamplesQueryCall ==
    \E last_t_seconds \in SampleSpans :
        /\ rateTracker.known
        /\ rateQuery' = [last_t |-> last_t_seconds,
                         samples |-> GetOccupancyRateRb(rateTracker, last_t_seconds),
                         log |-> rateLog]
        /\ UNCHANGED <<rateTracker, rateLog>>
        /\ RateFrame

CarparkSamplesNext == SamplesRecordEvent \/ SamplesQueryCall

----------------------------------------------------------------------------
(* Specification SpecVisits: visit_tracker.VisitTracker, single-threaded,   *)
(* with window_seconds = WindowSeconds and bucket_size = BucketSize.  A     *)
(* HyperLogLog is the exact set of the items added to it.                   *)

VtTimestamps == 0..MaxVtTs
VtSpans == 1..MaxVtTs

\* RollingHLL._get_bucket_index
VT_GetBucketIndex(timestamp) == timestamp \div BucketSize

\* RollingHLL.add
VT_Add(buckets, item, timestamp) ==
    LET bucket_index == VT_GetBucketIndex(timestamp)
    IN  Put(buckets, bucket_index,
            (IF bucket_index \in DOMAIN buckets THEN buckets[bucket_index] ELSE {})
                \cup {item})

\* RollingHLL.cleanup_old_data
VT_CleanupOldData(buckets, now) ==
    LET cutoff_time == Max2(0, now - WindowSeconds)
        cutoff_index == VT_GetBucketIndex(cutoff_time)
    IN  [index \in {i \in DOMAIN buckets : ~(i < cutoff_index)} |-> buckets[index]]

\* RollingHLL.count_from: len() of the merge of the buckets in the range
VT_CountFrom(buckets, cutoff_time, now) ==
    LET cutoff_index == VT_GetBucketIndex(Max2(0, cutoff_time))
        now_index == VT_GetBucketIndex(now)
    IN  Cardinality(UNION {buckets[index] :
                              index \in (cutoff_index..now_index) \cap DOMAIN buckets})

\* VisitTracker.get_unique_visitors_last_t_seconds
GetUniqueVisitors(buckets, now, t) == VT_CountFrom(buckets, Max2(0, now - t), now)

VtInit ==
    /\ vt_buckets = NoDict
    /\ vt_current_time = 0
    /\ events_since_cleanup = 0
    /\ vtVisits = {}
    /\ vtQuery = [t |-> 0, now |-> 0, result |-> 0]
    /\ vtCalls = 0

VtFrame ==
    UNCHANGED <<baseVars, imVars, evVars, itVars, cpVars, whVars, tkVars, bhVars,
                cptVars, rateVars, twVars, smVars, lastVars>>

\* VisitTracker.record_visit, with _cleanup_old_data when it is due
RecordVisit ==
    \E user_id \in UserIds, timestamp \in VtTimestamps :
        LET now == Max2(vt_current_time, timestamp)
            added == VT_Add(vt_buckets, user_id, timestamp)
        IN  /\ vtCalls < MaxVtCalls
            /\ vtCalls' = vtCalls + 1
            /\ vt_current_time' = now
            /\ IF events_since_cleanup >= CleanupThreshold
               THEN /\ vt_buckets' = VT_CleanupOldData(added, now)
                    /\ events_since_cleanup' = 0
               ELSE /\ vt_buckets' = added
                    /\ events_since_cleanup' = events_since_cleanup + 1
            /\ vtVisits' = vtVisits \cup {<<user_id, timestamp>>}
            /\ UNCHANGED vtQuery
            /\ VtFrame

GetUniqueVisitorsCall ==
    \E t \in VtSpans :
        /\ vtCalls < MaxVtCalls
        /\ vtCalls' = vtCalls + 1
        /\ vtQuery' = [t |-> t, now |-> vt_current_time,
                       result |-> GetUniqueVisitors(vt_buckets, vt_current_time, t)]
        /\ UNCHANGED <<vt_buckets, vt_current_time, events_since_cleanup, vtVisits>>
        /\ VtFrame

VisitsNext == RecordVisit \/ GetUniqueVisitorsCall

----------------------------------------------------------------------------
(* Specification SpecTrendingWindow: hashtag_tracker.TrendingTracker with   *)
(* window_seconds = TT_WindowSeconds, K = TT_K and clean_every_n_posts =    *)
(* TT_CleanEvery, called from one thread with non-decreasing timestamps.    *)

TwTimestamps == {TwStep * k : k \in 0..MaxTwTick}
TwSpans == {TwStep * k : k \in 1..MaxTwTick}
TwKs == 1..NumItems

NoTwQuery == [op |-> "none", hashtag |-> 0, k |-> 0, t |-> 0, now |-> 0,
              posts |-> <<>>, result |-> <<>>, rate |-> 0]

RECURSIVE HT_ExpiredTables(_, _, _)
\* RollingCMS.cleanup_old_data, the loop: to_subtract for range(from, to)
HT_ExpiredTables(buckets, from, to) ==
    IF from >= to THEN <<>>
    ELSE <<IF from \in DOMAIN buckets THEN buckets[from] ELSE ZeroTable>>
             \o HT_ExpiredTables(buckets, from + 1, to)

\* RollingCMS.cleanup_old_data: [buckets, merged] afterwards
HT_CleanupOldData(buckets, merged, cutoff_time) ==
    IF DOMAIN buckets = {} THEN [buckets |-> buckets, merged |-> merged]
    ELSE LET start_index == HT_MinIndex(buckets)
             cutoff_index == HT_GetBucketIndex(cutoff_time)
         IN  [buckets |-> [i \in {j \in DOMAIN buckets : ~(j < cutoff_index)} |->
                              buckets[i]],
              merged |-> HT_SubtractAll(merged,
                            HT_ExpiredTables(buckets, start_index, cutoff_index))]

RECURSIVE TT_TrimAll(_, _, _)
\* _cleanup_old_data, the loop over list(self.hashtag_timestamps.keys())
TT_TrimAll(d, keys, cutoff_time) ==
    IF keys = <<>> THEN d
    ELSE TT_TrimAll(TT_TrimHashtag(d, Head(keys), cutoff_time), Tail(keys), cutoff_time)

\* TrendingTracker._cleanup_old_data with global_lock free: the state afterwards
TT_CleanupOldData(st, cutoff_time) ==
    IF st.timestamps = <<>> THEN st
    ELSE LET cms == HT_CleanupOldData(st.buckets, st.merged, cutoff_time)
         IN  [timestamps |-> TT_TrimAll(st.timestamps, DictKeys(st.timestamps),
                                        cutoff_time),
              buckets |-> cms.buckets,
              merged |-> cms.merged,
              posts |-> 0]

\* TrendingTracker._count_timestamps_in_window
TT_CountTimestampsInWindow(d, hashtag, cutoff_time) ==
    LET timestamps == DictGet(d, hashtag)
    IN  IF timestamps = <<>> THEN 0
        ELSE Len(timestamps) - BisectRight(timestamps, cutoff_time, 0, Len(timestamps))

\* round(posts_num / t, 3), in thousandths (no tie arises for the TwSpans)
TT_RoundedRate(posts_num, t) == (2000 * posts_num + t) \div (2 * t)

TwState ==
    [timestamps |-> tw_hashtag_timestamps, buckets |-> tw_buckets,
     merged |-> tw_merged, posts |-> tw_posts_since_cleanup]

TwInit ==
    /\ tw_current_time = 0
    /\ tw_hashtag_timestamps = <<>>
    /\ tw_top_k_global_heap = NoHeap
    /\ tw_posts_since_cleanup = 0
    /\ tw_buckets = NoBuckets
    /\ tw_merged = ZeroTable
    /\ twPosts = <<>>
    /\ twQuery = NoTwQuery
    /\ twCalls = 0

TwFrame ==
    UNCHANGED <<baseVars, imVars, evVars, itVars, cpVars, whVars, tkVars, bhVars,
                cptVars, rateVars, vtVars, smVars, lastVars>>

TwSet(st) ==
    /\ tw_hashtag_timestamps' = st.timestamps
    /\ tw_buckets' = st.buckets
    /\ tw_merged' = st.merged
    /\ tw_posts_since_cleanup' = st.posts

\* TrendingTracker.record_post
TwRecordPost ==
    \E hashtag \in Items, timestamp \in TwTimestamps :
        LET appended == DictSet(tw_hashtag_timestamps, hashtag,
                                Append(DictGet(tw_hashtag_timestamps, hashtag),
                                       timestamp))
            buckets1 == HT_BucketAdd(tw_buckets, HT_GetBucketIndex(timestamp),
                                     hashtag, 1)
            merged1 == TableAdd(tw_merged, hashtag, 1)
            count == TableEstimate(merged1, hashtag)
            posts == tw_posts_since_cleanup
            st == [timestamps |-> appended, buckets |-> buckets1,
                   merged |-> merged1, posts |-> posts + 1]
        IN  /\ twCalls < MaxTwCalls
            /\ timestamp >= tw_current_time
            /\ twCalls' = twCalls + 1
            /\ tw_current_time' = Max2(tw_current_time, timestamp)
            /\ tw_top_k_global_heap' =
                   TT_UpdateGlobalHeap(tw_top_k_global_heap, hashtag, count)
            /\ IF posts >= TT_CleanEvery
               THEN TwSet(TT_CleanupOldData(st, timestamp - TT_WindowSeconds))
               ELSE TwSet(st)
            /\ twPosts' = Append(twPosts, <<hashtag, timestamp>>)
            /\ UNCHANGED twQuery
            /\ TwFrame

\* TrendingTracker.get_top_k_trending_slow
TwGetTopKTrendingSlow ==
    \E k \in TwKs, t \in TwSpans :
        LET now == tw_current_time
            st == TT_CleanupOldData(TwState, now - Max2(t, TT_WindowSeconds))
            cutoff_time == now - t
            keys == DictKeys(st.timestamps)
            counts == [i \in 1..Len(keys) |->
                          <<keys[i],
                            TT_CountTimestampsInWindow(st.timestamps, keys[i],
                                                       cutoff_time)>>]
        IN  /\ twCalls < MaxTwCalls
            /\ twCalls' = twCalls + 1
            /\ TwSet(st)
            /\ twQuery' = [NoTwQuery EXCEPT
                              !.op = "get_top_k_trending_slow", !.k = k, !.t = t,
                              !.now = now, !.posts = twPosts,
                              !.result = Prefix(SortedByCount(counts), k)]
            /\ UNCHANGED <<tw_current_time, tw_top_k_global_heap, twPosts>>
            /\ TwFrame

\* TrendingTracker.get_post_rate
TwGetPostRate ==
    \E hashtag \in Items, t \in TwSpans :
        LET now == tw_current_time
            st == TT_CleanupOldData(TwState, now - Max2(t, TT_WindowSeconds))
            \* the read of the defaultdict creates the hashtag's empty list
            read == IF DictHas(st.timestamps, hashtag) THEN st.timestamps
                    ELSE DictSet(st.timestamps, hashtag, <<>>)
            posts_num == TT_CountTimestampsInWindow(st.timestamps, hashtag, now - t)
        IN  /\ twCalls < MaxTwCalls
            /\ twCalls' = twCalls + 1
            /\ TwSet([st EXCEPT !.timestamps = read])
            /\ twQuery' = [NoTwQuery EXCEPT
                              !.op = "get_post_rate", !.hashtag = hashtag, !.t = t,
                              !.now = now, !.posts = twPosts,
                              !.result = <<<<hashtag, posts_num>>>>,
                              !.rate = TT_RoundedRate(posts_num, t)]
            /\ UNCHANGED <<tw_current_time, tw_top_k_global_heap, twPosts>>
            /\ TwFrame

TrendingWindowNext == TwRecordPost \/ TwGetTopKTrendingSlow \/ TwGetPostRate

----------------------------------------------------------------------------
(* Specification SpecSketchMinus: the two sketches' subtraction applied to  *)
(* any two tables of the same shape.                                        *)

SmTables == [Rows \X Cols -> 0..MaxCellValue]

NoSmOp == [class |-> "none", table |-> ZeroTable, other |-> ZeroTable,
           result |-> ZeroTable]

SmInit == smOp = NoSmOp

SmFrame ==
    UNCHANGED <<baseVars, imVars, evVars, itVars, cpVars, whVars, tkVars, bhVars,
                cptVars, rateVars, vtVars, twVars, lastVars>>

\* impression_tracker.CountMinSketch.minus on tables of one shape
ImpressionSketchMinus ==
    \E table \in SmTables, other \in SmTables :
        /\ smOp' = [class |-> "impression_tracker", table |-> table, other |-> other,
                    result |-> IM_SketchMinus([start_time |-> 0, table |-> table],
                                              [start_time |-> 0, table |-> other]).table]
        /\ SmFrame

\* hashtag_tracker.CountMinSketch.subtract
HashtagSketchSubtract ==
    \E table \in SmTables, other \in SmTables :
        /\ smOp' = [class |-> "hashtag_tracker", table |-> table, other |-> other,
                    result |-> HT_TableSubtract(table, other)]
        /\ SmFrame

SketchMinusNext == ImpressionSketchMinus \/ HashtagSketchSubtract

----------------------------------------------------------------------------
(* Specification SpecRides: ride_sharing.RideSharingAnalytics called from   *)
(* threads.  Every shard, total_city_stats and top_k_drivers is read and    *)
(* written under its own lock only and no lock is taken inside another, so  *)
(* one `with lock:` block is one step.  Distances are whole kilometres.     *)

RideIds == 1..NumRides
DriverIds == 1..NumDrivers
Cities == 1..NumCities
Distances == 0..MaxDistance

NoRideCall == [op |-> "none", ride_id |-> 0, driver_id |-> 0, city |-> 0,
               distance_km |-> 0, total_distance |-> 0]

\* the defaultdict's value for a new driver
NewDriverStats == [num_completed_rides |-> 0, num_canceled_rides |-> 0,
                   total_distance |-> 0]

\* the defaultdict's value for a new city, and total_city_stats at first
NewCityStats == [num_completed_rides |-> 0, num_active_rides |-> 0,
                 total_distance |-> 0]

\* shard[key] on a defaultdict
StatsOf(shard, key, new) == IF key \in DOMAIN shard THEN shard[key] ELSE new

\* del active_ride_shard[ride_id], left out
RD_KeepRide(shard, ride_id) == shard

\* del active_ride_shard[ride_id]
RD_DelRide(shard, ride_id) == [r \in DOMAIN shard \ {ride_id} |-> shard[r]]

RdInit ==
    /\ active_rides = NoDict
    /\ driver_stats = NoDict
    /\ city_stats = NoDict
    /\ total_city_stats = NewCityStats
    /\ rd_top_k_drivers = NoHeap
    /\ rdPc = [t \in Threads |-> "idle"]
    /\ rdCall = [t \in Threads |-> NoRideCall]
    /\ rdCalls = [t \in Threads |-> 0]
    /\ rdEffects = [r \in RideIds |-> [starts |-> 0, ends |-> 0, cancels |-> 0,
                                       missed_ends |-> 0]]
    /\ rdKm = 0

RdFrame == UNCHANGED <<earlierVars, icVars, hsVars>>

RdGoto(t, pc) == rdPc' = [rdPc EXCEPT ![t] = pc]

RdReturn(t) ==
    /\ rdPc' = [rdPc EXCEPT ![t] = "idle"]
    /\ rdCall' = [rdCall EXCEPT ![t] = NoRideCall]

\* start_ride, the block under the ride's shard lock
RdStartRide(t) ==
    \E ride_id \in RideIds, driver_id \in DriverIds, city \in Cities :
        /\ rdPc[t] = "idle"
        /\ rdCalls[t] < MaxRideCallsPerThread
        /\ rdCalls' = [rdCalls EXCEPT ![t] = @ + 1]
        /\ IF ride_id \notin DOMAIN active_rides
           THEN /\ active_rides' = Put(active_rides, ride_id,
                                       [driver_id |-> driver_id, city |-> city])
                /\ rdCall' = [rdCall EXCEPT ![t] =
                                 [NoRideCall EXCEPT !.op = "start_ride",
                                                    !.ride_id = ride_id,
                                                    !.driver_id = driver_id,
                                                    !.city = city]]
                /\ RdGoto(t, "start_city")
                /\ rdEffects' = [rdEffects EXCEPT ![ride_id].starts = @ + 1]
           ELSE /\ UNCHANGED <<active_rides, rdPc, rdCall, rdEffects>>
        /\ UNCHANGED <<driver_stats, city_stats, total_city_stats, rd_top_k_drivers, rdKm>>
        /\ RdFrame

\* start_ride, the block under the city's shard lock
RdStartCity(t) ==
    /\ rdPc[t] = "start_city"
    /\ city_stats' = Put(city_stats, rdCall[t].city,
                         [StatsOf(city_stats, rdCall[t].city, NewCityStats)
                             EXCEPT !.num_active_rides = @ + 1])
    /\ RdGoto(t, "start_total")
    /\ UNCHANGED <<active_rides, driver_stats, total_city_stats, rd_top_k_drivers,
                   rdCall, rdCalls, rdEffects, rdKm>>
    /\ RdFrame

\* start_ride, the block under analytics_lock
RdStartTotal(t) ==
    /\ rdPc[t] = "start_total"
    /\ total_city_stats' = [total_city_stats EXCEPT !.num_active_rides = @ + 1]
    /\ RdReturn(t)
    /\ UNCHANGED <<active_rides, driver_stats, city_stats, rd_top_k_drivers,
                   rdCalls, rdEffects, rdKm>>
    /\ RdFrame

\* end_ride and cancel_ride, the block under the ride's shard lock
RdTakeRide(t, op, ride_id, distance_km) ==
    /\ rdCalls[t] < MaxRideCallsPerThread
    /\ rdCalls' = [rdCalls EXCEPT ![t] = @ + 1]
    /\ IF ride_id \notin DOMAIN active_rides
       THEN /\ rdEffects' = [rdEffects EXCEPT ![ride_id].missed_ends =
                                   IF op = "end_ride" THEN @ + 1 ELSE @]
            /\ UNCHANGED <<active_rides, rdPc, rdCall, rdKm>>
       ELSE /\ active_rides' = RD_DelRide(active_rides, ride_id)
            /\ rdCall' = [rdCall EXCEPT ![t] =
                             [NoRideCall EXCEPT
                                 !.op = op, !.ride_id = ride_id,
                                 !.driver_id = active_rides[ride_id].driver_id,
                                 !.city = active_rides[ride_id].city,
                                 !.distance_km = distance_km]]
            /\ RdGoto(t, IF op = "end_ride" THEN "end_driver" ELSE "cancel_driver")
            /\ IF op = "end_ride"
               THEN /\ rdEffects' = [rdEffects EXCEPT ![ride_id].ends = @ + 1]
                    /\ rdKm' = rdKm + distance_km
               ELSE /\ rdEffects' = [rdEffects EXCEPT ![ride_id].cancels = @ + 1]
                    /\ UNCHANGED rdKm
    /\ UNCHANGED <<driver_stats, city_stats, total_city_stats, rd_top_k_drivers>>
    /\ RdFrame

\* a thread calls end_ride(ride_id, end_time, distance_km)
RdEndRide(t) ==
    \E ride_id \in RideIds, distance_km \in Distances :
        /\ rdPc[t] = "idle"
        /\ RdTakeRide(t, "end_ride", ride_id, distance_km)

\* a thread calls cancel_ride(ride_id, cancel_time)
RdCancelRide(t) ==
    \E ride_id \in RideIds :
        /\ rdPc[t] = "idle"
        /\ RdTakeRide(t, "cancel_ride", ride_id, 0)

\* end_ride, the block under the driver's shard lock
RdEndDriver(t) ==
    LET before == StatsOf(driver_stats, rdCall[t].driver_id, NewDriverStats)
        after == [before EXCEPT !.num_completed_rides = @ + 1,
                                !.total_distance = @ + rdCall[t].distance_km]
    IN  /\ rdPc[t] = "end_driver"
        /\ driver_stats' = Put(driver_stats, rdCall[t].driver_id, after)
        /\ rdCall' = [rdCall EXCEPT ![t].total_distance = after.total_distance]
        /\ RdGoto(t, "end_city")
        /\ UNCHANGED <<active_rides, city_stats, total_city_stats, rd_top_k_drivers,
                       rdCalls, rdEffects, rdKm>>
        /\ RdFrame

\* end_ride, the block under the city's shard lock
RdEndCity(t) ==
    /\ rdPc[t] = "end_city"
    /\ city_stats' = Put(city_stats, rdCall[t].city,
                         [StatsOf(city_stats, rdCall[t].city, NewCityStats) EXCEPT
                             !.num_completed_rides = @ + 1,
                             !.num_active_rides = Max2(0, @ - 1),
                             !.total_distance = @ + rdCall[t].distance_km])
    /\ RdGoto(t, "end_total")
    /\ UNCHANGED <<active_rides, driver_stats, total_city_stats, rd_top_k_drivers,
                   rdCall, rdCalls, rdEffects, rdKm>>
    /\ RdFrame

\* end_ride, the block under analytics_lock
RdEndTotal(t) ==
    /\ rdPc[t] = "end_total"
    /\ total_city_stats' = [total_city_stats EXCEPT
                               !.num_completed_rides = @ + 1,
                               !.num_active_rides = Max2(0, @ - 1),
                               !.total_distance = @ + rdCall[t].distance_km]
    /\ RdGoto(t, "end_top_k")
    /\ UNCHANGED <<active_rides, driver_stats, city_stats, rd_top_k_drivers,
                   rdCall, rdCalls, rdEffects, rdKm>>
    /\ RdFrame

\* end_ride, _update_top_k_drivers under top_k_drivers_lock
RdEndTopK(t) ==
    /\ rdPc[t] = "end_top_k"
    /\ rd_top_k_drivers' = RS_UpdateTopKDrivers(rd_top_k_drivers, rdCall[t].driver_id,
                                                rdCall[t].total_distance)
    /\ RdReturn(t)
    /\ UNCHANGED <<active_rides, driver_stats, city_stats, total_city_stats,
                   rdCalls, rdEffects, rdKm>>
    /\ RdFrame

\* cancel_ride, the block under the driver's shard lock
RdCancelDriver(t) ==
    /\ rdPc[t] = "cancel_driver"
    /\ driver_stats' = Put(driver_stats, rdCall[t].driver_id,
                           [StatsOf(driver_stats, rdCall[t].driver_id, NewDriverStats)
                               EXCEPT !.num_canceled_rides = @ + 1])
    /\ RdGoto(t, "cancel_city")
    /\ UNCHANGED <<active_rides, city_stats, total_city_stats, rd_top_k_drivers,
                   rdCall, rdCalls, rdEffects, rdKm>>
    /\ RdFrame

\* cancel_ride, the block under the city's shard lock
RdCancelCity(t) ==
    /\ rdPc[t] = "cancel_city"
    /\ city_stats' = Put(city_stats, rdCall[t].city,
                         [StatsOf(city_stats, rdCall[t].city, NewCityStats) EXCEPT
                             !.num_active_rides = Max2(0, @ - 1)])
    /\ RdGoto(t, "cancel_total")
    /\ UNCHANGED <<active_rides, driver_stats, total_city_stats, rd_top_k_drivers,
                   rdCall, rdCalls, rdEffects, rdKm>>
    /\ RdFrame

\* cancel_ride, the block under analytics_lock
RdCancelTotal(t) ==
    /\ rdPc[t] = "cancel_total"
    /\ total_city_stats' = [total_city_stats EXCEPT
                               !.num_active_rides = Max2(0, @ - 1)]
    /\ RdReturn(t)
    /\ UNCHANGED <<active_rides, driver_stats, city_stats, rd_top_k_drivers,
                   rdCalls, rdEffects, rdKm>>
    /\ RdFrame

RidesNext ==
    \E t \in Threads :
        \/ RdStartRide(t) \/ RdStartCity(t) \/ RdStartTotal(t)
        \/ RdEndRide(t) \/ RdEndDriver(t) \/ RdEndCity(t) \/ RdEndTotal(t)
        \/ RdEndTopK(t)
        \/ RdCancelRide(t) \/ RdCancelDriver(t) \/ RdCancelCity(t)
        \/ RdCancelTotal(t)

\* get_active_rides(None)
GetActiveRidesTotal == total_city_stats.num_active_rides

\* get_active_rides(city)
GetActiveRides(city) ==
    IF city \notin DOMAIN city_stats THEN 0 ELSE city_stats[city].num_active_rides

\* (a, b) < (c, d) on tuples
TupleLess(x, y) == x[1] < y[1] \/ (x[1] = y[1] /\ x[2] < y[2])

\* top_k[0]: the smallest (total_distance, driver_id) of the heap
HeapTop(top_k) == CHOOSE x \in top_k : \A y \in top_k : x = y \/ TupleLess(x, y)

RECURSIVE OnDemandLoop(_, _, _, _)
\* get_top_drivers_by_distance_on_demand, the loops: the shards in index order
\* (a driver's shard index is its id), top_k as the set of its tuples
OnDemandLoop(stats, driver_id, top_k, k) ==
    IF driver_id > NumDrivers THEN top_k
    ELSE IF driver_id \notin DOMAIN stats
         THEN OnDemandLoop(stats, driver_id + 1, top_k, k)
         ELSE LET total_distance == stats[driver_id].total_distance
                  pushed ==
                      IF Cardinality(top_k) < k
                      THEN top_k \cup {<<total_distance, driver_id>>}
                      ELSE IF total_distance > HeapTop(top_k)[1]
                           THEN (top_k \ {HeapTop(top_k)})
                                    \cup {<<total_distance, driver_id>>}
                           ELSE top_k
              IN  OnDemandLoop(stats, driver_id + 1, pushed, k)

RECURSIVE SortedReverse(_)
\* sorted(top_k, reverse=True), turned into (driver_id, distance) pairs
SortedReverse(top_k) ==
    IF top_k = {} THEN <<>>
    ELSE LET largest == CHOOSE x \in top_k : \A y \in top_k : x = y \/ TupleLess(y, x)
         IN  <<<<largest[2], largest[1]>>>> \o SortedReverse(top_k \ {largest})

\* get_top_drivers_by_distance_on_demand(k), k >= 1
GetTopDriversOnDemand(k) == SortedReverse(OnDemandLoop(driver_stats, 1, {}, k))

\* get_top_drivers_by_distance_computed(k)
GetTopDriversComputed(k) == Prefix(SortedByCount(HeapItems(rd_top_k_drivers)), k)

----------------------------------------------------------------------------
(* Specification SpecImpressionThreads: impression_tracker.RollingCMS.add   *)
(* called from threads with timestamps of two eras of one ring slot, both   *)
(* later than era 0.  add reads bucket.start_time with no lock held; minus  *)
(* and the two CountMinSketch.add calls each run under the sketches' locks. *)

\* an era of slot 1 and the era one turn of the ring later
IcTimestamps == {BucketSize, BucketSize + BucketSize * IM_NumBuckets}

NoIcCall == [item |-> 0, start_time |-> 0, bucket_index |-> 0]

\* uint64 cells: an addition wraps around as well
WrapTable(table) == [cell \in Rows \X Cols |-> table[cell] % CellModulus]

IcInit ==
    /\ ic_buckets = [i \in 0..(IM_NumBuckets - 1) |-> IM_NewSketch]
    /\ ic_merged = IM_NewSketch
    /\ icPc = [t \in Threads |-> "idle"]
    /\ icCall = [t \in Threads |-> NoIcCall]
    /\ icCalls = [t \in Threads |-> 0]
    /\ icNote = [subtracted |-> 0, cleared |-> 0, dropped |-> 0]

IcFrame == UNCHANGED <<earlierVars, rdVars, hsVars>>

\* RollingCMS.add up to and with the test of bucket.start_time
IcAddStart(t) ==
    \E item \in Items, timestamp \in IcTimestamps :
        LET start_time == IM_GetStartTime(timestamp)
            bucket_index == IM_GetBucketIndex(start_time)
            bucket == ic_buckets[bucket_index]
        IN  /\ icPc[t] = "idle"
            /\ icCalls[t] < MaxIcCallsPerThread
            /\ icCalls' = [icCalls EXCEPT ![t] = @ + 1]
            /\ icCall' = [icCall EXCEPT ![t] =
                             [item |-> item, start_time |-> start_time,
                              bucket_index |-> bucket_index]]
            /\ icPc' = [icPc EXCEPT ![t] =
                           IF bucket.start_time # 0 /\ start_time > bucket.start_time
                           THEN "minus" ELSE "bucket_add"]
            /\ UNCHANGED <<ic_buckets, ic_merged, icNote>>
            /\ IcFrame

\* self.merged.minus(bucket)
IcMinus(t) ==
    /\ icPc[t] = "minus"
    /\ ic_merged' = IM_SketchMinus(ic_merged, ic_buckets[icCall[t].bucket_index])
    /\ icNote' = [icNote EXCEPT !.subtracted = @ + 1]
    /\ icPc' = [icPc EXCEPT ![t] = "bucket_add"]
    /\ UNCHANGED <<ic_buckets, icCall, icCalls>>
    /\ IcFrame

\* bucket.add(item, start_time, count)
IcBucketAdd(t) ==
    LET bucket == ic_buckets[icCall[t].bucket_index]
        start_time == icCall[t].start_time
        added == IM_SketchAdd(bucket, icCall[t].item, start_time, 1)
    IN  /\ icPc[t] = "bucket_add"
        /\ ic_buckets' = [ic_buckets EXCEPT ![icCall[t].bucket_index] =
                             [added EXCEPT !.table = WrapTable(@)]]
        /\ icNote' = [icNote EXCEPT
                         !.cleared = IF bucket.start_time # 0
                                        /\ start_time > bucket.start_time
                                     THEN @ + 1 ELSE @,
                         !.dropped = IF Truthy(start_time)
                                        /\ start_time < bucket.start_time
                                     THEN @ + 1 ELSE @]
        /\ icPc' = [icPc EXCEPT ![t] = "merged_add"]
        /\ UNCHANGED <<ic_merged, icCall, icCalls>>
        /\ IcFrame

\* self.merged.add(item, None, count), and the call returns
IcMergedAdd(t) ==
    /\ icPc[t] = "merged_add"
    /\ ic_merged' = [IM_SketchAdd(ic_merged, icCall[t].item, None, 1)
                        EXCEPT !.table = WrapTable(@)]
    /\ icPc' = [icPc EXCEPT ![t] = "idle"]
    /\ icCall' = [icCall EXCEPT ![t] = NoIcCall]
    /\ UNCHANGED <<ic_buckets, icCalls, icNote>>
    /\ IcFrame

ImpressionThreadsNext ==
    \E t \in Threads :
        IcAddStart(t) \/ IcMinus(t) \/ IcBucketAdd(t) \/ IcMergedAdd(t)

----------------------------------------------------------------------------
(* Specification SpecHospital: hospital.HospitalSystem with top_k_default   *)
(* = TopKDefault, called from one thread.                                   *)

PatientIds == 1..NumPatients
Hospitals == 1..NumHospitals
BedIds == 1..NumBeds
DoctorIds == 1..NumDoctors
HsTimes == 0..MaxHsTime

NoHsCall == [op |-> "none", patient_id |-> 0, hospital |-> 0, doctor_id |-> 0,
             bed_id |-> 0, time |-> 0]

\* the default of hospital_stats
NewHospitalStats ==
    [num_discharged |-> 0, num_active_patients |-> 0, total_treatment_time |-> 0]

\* the default of doctor_stats
NewDoctorStats == [num_treated_patients |-> 0, total_treatment_duration |-> 0]

\* d[key] of a defaultdict
DefaultGet(d, key, default) == IF key \in DOMAIN d THEN d[key] ELSE default

\* set.discard left out
HS_DiscardNothing(beds, bed_id) == beds

\* set.discard
HS_Discard(beds, bed_id) == beds \ {bed_id}

HsInit ==
    /\ patients = [x \in {} |-> 0]
    /\ hospital_occupied_beds = [x \in {} |-> {}]
    /\ total_occupied_beds = 0
    /\ hospital_stats = [x \in {} |-> NewHospitalStats]
    /\ doctor_stats = [x \in {} |-> NewDoctorStats]
    /\ hs_top_k_doctors = NoHeap
    /\ hs_top_k_hospitals = NoHeap
    /\ hsLast = NoHsCall
    /\ hsRejected = 0
    /\ hsCalls = 0

HsFrame == UNCHANGED <<earlierVars, rdVars, icVars>>

\* a call that returns before it changes anything
HsReturnEarly ==
    /\ hsRejected' = hsRejected + 1
    /\ UNCHANGED <<patients, hospital_occupied_beds, total_occupied_beds,
                   hospital_stats, doctor_stats, hs_top_k_doctors, hs_top_k_hospitals>>

\* HospitalSystem.start_admission
HsStartAdmission ==
    \E patient_id \in PatientIds, hospital \in Hospitals, doctor_id \in DoctorIds,
       bed_id \in BedIds, admission_time \in HsTimes :
        LET beds == SetDefault(hospital_occupied_beds, hospital, {})
            stats == DefaultGet(hospital_stats, hospital, NewHospitalStats)
        IN  /\ hsCalls < MaxHsCalls
            /\ hsCalls' = hsCalls + 1
            /\ hsLast' = [NoHsCall EXCEPT !.op = "start_admission",
                             !.patient_id = patient_id, !.hospital = hospital,
                             !.doctor_id = doctor_id, !.bed_id = bed_id,
                             !.time = admission_time]
            /\ IF patient_id \in DOMAIN patients
               THEN HsReturnEarly
               ELSE IF bed_id \in beds[hospital]
               THEN HsReturnEarly
               ELSE /\ patients' = Put(patients, patient_id,
                                      [hospital |-> hospital, doctor_id |-> doctor_id,
                                       bed_id |-> bed_id,
                                       admission_time |-> admission_time])
                    /\ hospital_occupied_beds' =
                           Put(beds, hospital, beds[hospital] \cup {bed_id})
                    /\ total_occupied_beds' = total_occupied_beds + 1
                    /\ hospital_stats' =
                           Put(hospital_stats, hospital,
                               [stats EXCEPT !.num_active_patients = @ + 1])
                    /\ UNCHANGED <<doctor_stats, hs_top_k_doctors, hs_top_k_hospitals,
                                   hsRejected>>
            /\ HsFrame

\* HospitalSystem.end_admission
HsEndAdmission ==
    \E patient_id \in PatientIds, discharge_time \in HsTimes :
        /\ hsCalls < MaxHsCalls
        /\ hsCalls' = hsCalls + 1
        /\ hsLast' = [NoHsCall EXCEPT !.op = "end_admission",
                         !.patient_id = patient_id, !.time = discharge_time]
        /\ IF patient_id \notin DOMAIN patients
           THEN HsReturnEarly
           ELSE IF discharge_time < patients[patient_id].admission_time
           THEN HsReturnEarly
           ELSE LET patient == patients[patient_id]
                    beds == SetDefault(hospital_occupied_beds, patient.hospital, {})
                    treatment_time == discharge_time - patient.admission_time
                    h == DefaultGet(hospital_stats, patient.hospital,
                                    NewHospitalStats)
                    h1 == [num_discharged |-> h.num_discharged + 1,
                           num_active_patients |-> h.num_active_patients - 1,
                           total_treatment_time |->
                               h.total_treatment_time + treatment_time]
                    d == DefaultGet(doctor_stats, patient.doctor_id, NewDoctorStats)
                    d1 == [num_treated_patients |-> d.num_treated_patients + 1,
                           total_treatment_duration |->
                               d.total_treatment_duration + treatment_time]
                IN  /\ patients' = [x \in DOMAIN patients \ {patient_id} |->
                                       patients[x]]
                    /\ hospital_occupied_beds' =
                           Put(beds, patient.hospital,
                                   HS_Discard(beds[patient.hospital], patient.bed_id))
                    /\ total_occupied_beds' = total_occupied_beds - 1
                    /\ hospital_stats' = Put(hospital_stats, patient.hospital, h1)
                    /\ doctor_stats' = Put(doctor_stats, patient.doctor_id, d1)
                    /\ hs_top_k_doctors' =
                           HS_UpdateTopKDoctors(hs_top_k_doctors, patient.doctor_id,
                                                d1.num_treated_patients)
                    /\ hs_top_k_hospitals' =
                           HS_UpdateTopKHospitals(hs_top_k_hospitals, patient.hospital,
                                                  h1.num_discharged)
                    /\ UNCHANGED hsRejected
        /\ HsFrame

\* HospitalSystem.transfer_patient
HsTransferPatient ==
    \E patient_id \in PatientIds, new_hospital \in Hospitals, new_bed_id \in BedIds :
        /\ hsCalls < MaxHsCalls
        /\ hsCalls' = hsCalls + 1
        /\ hsLast' = [NoHsCall EXCEPT !.op = "transfer_patient",
                         !.patient_id = patient_id, !.hospital = new_hospital,
                         !.bed_id = new_bed_id]
        /\ IF patient_id \notin DOMAIN patients
           THEN HsReturnEarly
           ELSE IF new_bed_id \in SetDefault(hospital_occupied_beds, new_hospital,
                                             {})[new_hospital]
           THEN HsReturnEarly
           ELSE LET patient == patients[patient_id]
                    beds0 == SetDefault(hospital_occupied_beds, new_hospital, {})
                    beds1 == SetDefault(beds0, patient.hospital, {})
                    beds2 == Put(beds1, patient.hospital,
                                 HS_Discard(beds1[patient.hospital], patient.bed_id))
                    old == DefaultGet(hospital_stats, patient.hospital,
                                      NewHospitalStats)
                    stats1 == Put(hospital_stats, patient.hospital,
                                  [old EXCEPT !.num_active_patients = @ - 1])
                    new == DefaultGet(stats1, new_hospital, NewHospitalStats)
                IN  /\ patients' = Put(patients, patient_id,
                                      [patient EXCEPT !.hospital = new_hospital,
                                                      !.bed_id = new_bed_id])
                    /\ hospital_occupied_beds' =
                           Put(beds2, new_hospital,
                                   beds2[new_hospital] \cup {new_bed_id})
                    /\ hospital_stats' =
                           Put(stats1, new_hospital,
                               [new EXCEPT !.num_active_patients = @ + 1])
                    /\ UNCHANGED <<total_occupied_beds, doctor_stats, hs_top_k_doctors,
                                   hs_top_k_hospitals, hsRejected>>
        /\ HsFrame

HospitalNext == HsStartAdmission \/ HsEndAdmission \/ HsTransferPatient

Init ==
    /\ RingInit
    /\ AddInit
    /\ BookInit
    /\ LocksInit
    /\ ImInit
    /\ HcInit
    /\ TtInit
    /\ EvInit
    /\ ItInit
    /\ CpInit
    /\ WhInit
    /\ TkInit
    /\ BhInit
    /\ CptInit
    /\ RateInit
    /\ VtInit
    /\ TwInit
    /\ SmInit
    /\ RdInit
    /\ IcInit
    /\ HsInit

SpecRing == Init /\ [][RingNext]_vars

SpecRingAdd == Init /\ [][RingAddNext]_vars

SpecRingEras == Init /\ [][RingErasNext]_vars

SpecBook == Init /\ [][BookNext]_vars

SpecBookHistory == Init /\ [][BookHistoryNext]_vars

SpecBookLocks == Init /\ [][BookLocksNext]_vars

SpecBookUpdates == Init /\ [][BookUpdatesNext]_vars

SpecImpressionCMS == Init /\ [][ImNext]_vars

SpecHashtagCMS == Init /\ [][HashtagCMSNext]_vars

SpecTrending == Init /\ [][TrendingNext]_vars

SpecEvents == Init /\ [][EventsNext]_vars

SpecImpressions == Init /\ [][ImpressionsNext]_vars

SpecCarpark == Init /\ [][CarparkNext]_vars

SpecCarparkThreads == Init /\ [][CarparkThreadsNext]_vars

SpecCarparkRate == Init /\ [][CarparkRateNext]_vars

SpecCarparkSamples == Init /\ [][CarparkSamplesNext]_vars

SpecVisits == Init /\ [][VisitsNext]_vars

SpecTrendingWindow == Init /\ [][TrendingWindowNext]_vars

SpecSketchMinus == Init /\ [][SketchMinusNext]_vars

SpecRides == Init /\ [][RidesNext]_vars

SpecHospital == Init /\ [][HospitalNext]_vars

SpecImpressionThreads == Init /\ [][ImpressionThreadsNext]_vars

SpecTopK == Init /\ [][TopKNext]_vars

SpecInventory == Init /\ [][InventoryNext]_vars

SpecInventoryThreads == Init /\ [][InventoryThreadsNext]_vars

\* every thread that can take a step eventually takes one: a thread that is
\* runnable is scheduled, and a lock that stays free is acquired
SpecInventoryFair ==
    /\ Init
    /\ [][InventoryFairNext]_vars
    /\ \A t \in Threads : WF_vars(WhFairThreadStep(t))

\* C1: concurrent add(ts, delta) calls with timestamps inside one window lose
\* no increment: once all calls have returned, total() is the sum of the deltas.
C1_NoLostIncrement ==
    (\A t \in Threads : addPc[t] = "idle") => OB_Total(obRing) = addSum

----------------------------------------------------------------------------
(* Claims about the rings.                                                 *)

\* Thread t holds a price lock and is blocked in lock.acquire() on one that
\* thread u holds.
HoldsAndWaitsFor(t, u) ==
    /\ callPc[t] = "update_acquire"
    /\ call[t].count >= 1
    /\ price_lock[call[t].locks[call[t].count + 1]].owner = u

\* C2: concurrent update_order calls never deadlock: for every assignment of
\* prices to stripes, no reachable state has two threads that each hold one
\* price lock and wait for the other's.
C2_NoPriceLockDeadlock ==
    \A t, u \in Threads : t # u => ~(HoldsAndWaitsFor(t, u) /\ HoldsAndWaitsFor(u, t))

RECURSIVE SumCell(_, _, _)
\* the sum of one cell over buckets 0 .. n-1
SumCell(buckets, cell, n) ==
    IF n = 0 THEN 0 ELSE SumCell(buckets, cell, n - 1) + buckets[n - 1].table[cell]

\* C3: in the impression tracker's RollingCMS, after any single-threaded
\* sequence of add calls every cell of `merged` is the sum of that cell over
\* all ring buckets.
C3_MergedIsSumOfBuckets ==
    \A cell \in Rows \X Cols :
        im_merged.table[cell] = SumCell(im_buckets, cell, IM_NumBuckets)

\* C4: when an add arrives with timestamp = bucket_size * num_buckets, the
\* first wrap onto slot 0, what era 0 added to slot 0 is subtracted from
\* `merged`: afterwards merged holds what it held, less slot 0's era-0 counts,
\* plus the new add.
C4_FirstWrapSubtractsEraZero ==
    [][(/\ imOp' # imOp \/ imCalls' # imCalls
        /\ imOp'.ts = BucketSize * IM_NumBuckets
        /\ im_buckets[0].start_time = 0)
       => \A cell \in Rows \X Cols :
             im_merged'.table[cell] =
                 im_merged.table[cell] - im_buckets[0].table[cell]
                 + (IF cell[2] = ColIndex(cell[1], imOp'.item)
                    THEN imOp'.count ELSE 0)
      ]_vars

RECURSIVE SumBuckets(_, _, _)
\* the sum of one cell over the buckets whose indices are in `indices`
SumBuckets(buckets, cell, indices) ==
    IF indices = {} THEN 0
    ELSE LET i == CHOOSE i \in indices : TRUE
         IN  buckets[i][cell] + SumBuckets(buckets, cell, indices \ {i})

\* C5: in the hashtag tracker's RollingCMS, whatever the interleaving of
\* concurrent add and cleanup_old_data calls, whenever no call is in flight
\* every cell of `merged` is the sum of that cell over the buckets present.
C5_QuiescentMergedIsSum ==
    (\A t \in Threads : htPc[t] = "idle")
        => \A cell \in Rows \X Cols :
              hc_merged[cell] = SumBuckets(hc_buckets, cell, DOMAIN hc_buckets)

\* C6: under any interleaving of concurrent record_post calls current_time
\* never decreases, and once all calls have returned it is the largest
\* timestamp passed to any of them.
C6_CurrentTimeMonotoneMax ==
    [][/\ tt_current_time' >= tt_current_time
       /\ (\A t \in Threads : htPc'[t] = "idle") => tt_current_time' = ttMaxTs'
      ]_vars

\* C7: after any sequence of record_order, update_order and cancel_order calls
\* current_time is the largest timestamp among the calls applied to the book
\* (0 if none).
C7_CurrentTimeIsMaxApplied == current_time = bookMaxTs

\* The effect the specification text gives for add(era, delta) on the target
\* bucket: older era -> unchanged, newer era -> (era, delta), same era -> +delta.
AddEffectOK(before, after, era, delta) ==
    /\ era < before.start_time => after = before
    /\ era > before.start_time => after = [start_time |-> era, quantity |-> delta]
    /\ era = before.start_time =>
          after = [start_time |-> era, quantity |-> before.quantity + delta]

\* C8: after any sequence of add and minus calls on a RingBuffer (order book
\* and event tracker) every AtomicBucket's stored value is >= 0.
C8_StoredValueNonNegative ==
    /\ \A i \in DOMAIN obRing : obRing[i].quantity >= 0
    /\ \A i \in DOMAIN etRing : etRing[i].quantity >= 0

\* C9: for every RingBuffer implementation (order book, carpark, event
\* tracker) an add with an era older than the target bucket's start_time
\* leaves the bucket unchanged, a newer era sets (era, delta), the same era
\* adds delta.
C9_AddByEra ==
    [][ringOp'.kind = "add" =>
        LET era == GetBucketStartTime(ringOp'.ts)
            d   == ringOp'.count
        IN  /\ ringOp'.impl = "ob" =>
                AddEffectOK(obRing[OB_GetBucketIndex(ringOp'.ts)],
                            obRing'[OB_GetBucketIndex(ringOp'.ts)], era, d)
            /\ ringOp'.impl = "et" =>
                AddEffectOK(etRing[ET_GetBucketIndex(ringOp'.ts)],
                            etRing'[ET_GetBucketIndex(ringOp'.ts)], era, d)
            /\ ringOp'.impl = "cp" =>
                AddEffectOK(cpRing[CP_GetBucketIndex(ringOp'.ts)],
                            cpRing'[CP_GetBucketIndex(ringOp'.ts)], era, d)
      ]_vars

\* The bucket that holds era(now - window_seconds), written and not empty, is
\* the same after the add at `now`.
KeepsWindowEdge(before, after, now) ==
    now >= WindowSeconds =>
        \A i \in DOMAIN before :
            (/\ before[i].start_time = GetBucketStartTime(now - WindowSeconds)
             /\ before[i].quantity > 0) => after[i] = before[i]

\* C10: with num_buckets = window_seconds / bucket_size + 1 in every
\* RingBuffer, an add at era(now) never overwrites the bucket that holds
\* era(now - window_seconds).
C10_AddKeepsWindowEdge ==
    [][ringOp'.kind = "add" =>
        /\ ringOp'.impl = "ob" => KeepsWindowEdge(obRing, obRing', ringOp'.ts)
        /\ ringOp'.impl = "et" => KeepsWindowEdge(etRing, etRing', ringOp'.ts)
        /\ ringOp'.impl = "cp" => KeepsWindowEdge(cpRing, cpRing', ringOp'.ts)
      ]_vars

\* the events of a type that are recorded and not deleted, with an era in
\* [era(current_time - min(t, window_seconds)), era(current_time)]
EventsInWindow(event_type, t) ==
    LET span == IF WindowSeconds < t THEN WindowSeconds ELSE t
    IN  {e \in EventIds :
            /\ ev_events[e] # NoEvent
            /\ ev_events[e].event_type = event_type
            /\ GetBucketStartTime(ev_events[e].timestamp)
                   >= GetBucketStartTime(ev_current_time - span)
            /\ GetBucketStartTime(ev_events[e].timestamp)
                   <= GetBucketStartTime(ev_current_time)}

\* C11: get_event_count(event_type, t) is the number of recorded, not deleted
\* events of that type whose era lies in the queried range, for every t > 0,
\* the full window (t >= window_seconds) included.
C11_EventCountIsWindowCount ==
    \A event_type \in DOMAIN event_type_rbs :
        \A t \in 1..(WindowSeconds + 1) :
            GetEventCount(event_type, t) = Cardinality(EventsInWindow(event_type, t))

RECURSIVE SumRecorded(_, _, _)
\* the number of record_impression calls for an ad with timestamp in lo..hi
SumRecorded(ad_id, lo, hi) ==
    IF hi < lo THEN 0
    ELSE (IF hi \in CmsTimestamps THEN itRecorded[<<ad_id, hi>>] ELSE 0)
         + SumRecorded(ad_id, lo, hi - 1)

\* the windows queried: shorter than, equal to and longer than window_seconds
QueryTs == 1..(WindowSeconds + 2)

\* C12: in a single-threaded run in which no recorded timestamp is older than
\* current_time - window_seconds, get_impression_count(ad, t) is at least the
\* number of record_impression calls for the ad with timestamp in
\* [current_time - min(t, window_seconds), current_time], for every t > 0.
C12_CountNeverBelowRecorded ==
    (it_config # NoConfig /\ ~itLate)
        => \A ad_id \in Items, t \in QueryTs :
              ImpressionCount(it_config, it_ads, ad_cms, it_current_time, ad_id, t)
                 >= SumRecorded(ad_id,
                        it_current_time
                          - (IF it_config.window_seconds < t
                             THEN it_config.window_seconds ELSE t),
                        it_current_time)

\* C13: a record_impression with timestamp < current_time - window_seconds is
\* dropped: get_impression_count returns the same value before and after the
\* call for every ad and every t, and current_time is unchanged.
C13_LateImpressionDropped ==
    [][(itCalls' # itCalls /\ itOp'.late)
       => /\ it_current_time' = it_current_time
          /\ \A ad_id \in Items, t \in QueryTs :
                ImpressionCount(it_config', it_ads', ad_cms', it_current_time', ad_id, t)
                  = ImpressionCount(it_config, it_ads, ad_cms, it_current_time, ad_id, t)
      ]_vars

\* the set of cars of a lot, as get_current_occupancy reads it
CarsIn(occupancy, lot_id) ==
    IF lot_id \in DOMAIN occupancy THEN occupancy[lot_id] ELSE {}

\* C14: record_event at timestamp = current_time - max_delay is accepted (an
\* ENTER of an absent car into a lot with room puts the car in, an EXIT of a
\* present car takes it out); at current_time - max_delay - 1 it is dropped,
\* and a dropped event changes neither the occupancy sets, the enter and exit
\* rings, the snapshots nor current_time.
C14_MaxDelayBoundary ==
    [][cpCalls' # cpCalls =>
        LET op == cpOp'
            before == CarsIn(lot_occupancy, op.lot)
            after == CarsIn(lot_occupancy', op.lot)
        IN  /\ (op.lot \in Lots /\ op.ts = op.now - MaxDelay)
                 => /\ (op.type = "ENTER" /\ op.car \notin before
                           /\ Cardinality(before) < LotCapacity)
                          => after = before \cup {op.car}
                    /\ (op.type = "EXIT" /\ op.car \in before)
                          => after = before \ {op.car}
            /\ (op.ts = op.now - MaxDelay - 1)
                 => UNCHANGED <<lot_occupancy, enter_time_buckets, exit_time_buckets,
                                occupancy_snapshots, cp_current_time>>
      ]_vars

\* C14 happens: an event at current_time - max_delay has just been applied,
\* after an event at current_time - max_delay - 1 was dropped
C14_Witness ==
    /\ cpDropped
    /\ cpOp.lot \in Lots
    /\ cpOp.ts = cpOp.now - MaxDelay
    /\ cpOp.applied

----------------------------------------------------------------------------
(* Claims about the inventory system.                                      *)

\* the state that add_stock, remove_stock and transfer_stock report on: the
\* stocks, the transfer and movement counters and the audit logs
WhLedger ==
    <<item_warehouse_stocks, item_transfers, warehouse_stock_movement, item_latest_ops>>

\* C15: transfer_stock(item, A, B, q) with A # B is all-or-nothing: with
\* stock(item, A) < q it returns False and changes no stock, counter or audit
\* log; otherwise A goes down by q, B goes up by q and the item's total stays.
C15_TransferAllOrNothing ==
    [][(whCalls' # whCalls /\ whOp'.op = "TFR" /\ whOp'.from # whOp'.to) =>
          LET o == whOp'
              a == StockAt(item_warehouse_stocks, o.item, o.from)
              b == StockAt(item_warehouse_stocks, o.item, o.to)
          IN  IF a < o.quantity
              THEN ~o.result /\ UNCHANGED WhLedger
              ELSE /\ o.result
                   /\ StockAt(item_warehouse_stocks', o.item, o.from) = a - o.quantity
                   /\ StockAt(item_warehouse_stocks', o.item, o.to) = b + o.quantity
                   /\ GetGlobalStock(item_warehouse_stocks', o.item)
                          = GetGlobalStock(item_warehouse_stocks, o.item)]_vars

\* C17: remove_stock and transfer_stock return False whenever the precondition
\* fails (unknown item, not enough stock at the source, from = to) and then
\* change nothing; they return True only if the quantity left the source by
\* this request or by an earlier one with the same idempotency key.
C17_FailedCallReturnsFalse ==
    [][(whCalls' # whCalls /\ whOp'.op \in {"DEL", "TFR"}) =>
          LET o == whOp'
              key == WH_Key(o.op, o.item, o.ts,
                            IF o.op = "TFR" THEN <<o.from, o.to>> ELSE <<o.from>>)
              fails == \/ o.op = "TFR" /\ o.from = o.to
                       \/ ~WH_CanRemove(item_warehouse_stocks, o.item, o.quantity,
                                        o.from)
              moved == StockAt(item_warehouse_stocks', o.item, o.from)
                          = StockAt(item_warehouse_stocks, o.item, o.from) - o.quantity
          IN  /\ fails => (~o.result /\ UNCHANGED WhLedger)
              /\ o.result => (moved \/ key \in DOMAIN whApplied)]_vars

\* no thread is inside a call
WhQuiescent == \A t \in Threads : whPc[t] = "idle"

\* the number of entries of item_latest_ops written for an idempotency key
AuditEntries(key) ==
    LET log == IF key.item_id \in DOMAIN item_latest_ops
               THEN item_latest_ops[key.item_id] ELSE <<>>
    IN  Cardinality({ i \in 1..Len(log) :
                        /\ log[i].op = key.op
                        /\ log[i].timestamp = key.timestamp
                        /\ log[i].warehouse_ids = key.warehouse_ids })

RECURSIVE LoggedMovement(_, _)
\* the quantity the entries of an audit log moved through a warehouse
LoggedMovement(log, warehouse_id) ==
    IF log = <<>> THEN 0
    ELSE (IF InSeq(Head(log).warehouse_ids, warehouse_id) THEN Head(log).quantity
          ELSE 0)
         + LoggedMovement(Tail(log), warehouse_id)

RECURSIVE AllLoggedMovement(_, _)
AllLoggedMovement(items, warehouse_id) ==
    IF items = {} THEN 0
    ELSE LET i == CHOOSE x \in items : TRUE
         IN  LoggedMovement(item_latest_ops[i], warehouse_id)
             + AllLoggedMovement(items \ {i}, warehouse_id)

\* no audit log has been trimmed to ops_max_len yet
NoAuditTrimmed == \A i \in DOMAIN item_latest_ops : Len(item_latest_ops[i]) < OpsMaxLen

\* C16: a request whose idempotency key (op, item_id, timestamp, warehouse_ids)
\* is in the dedup cache is applied once however often it is made, by one thread
\* or by several at once: its key changes the stock at most once and has at most
\* one audit entry, and once all calls have returned each warehouse's movement
\* counter is what the audit entries moved through the warehouse.
C16_DuplicateAppliedOnce ==
    /\ \A key \in whKeys \ whEvicted :
          /\ key \in DOMAIN whApplied => whApplied[key] <= 1
          /\ AuditEntries(key) <= 1
    /\ (WhQuiescent /\ whEvicted = {} /\ NoAuditTrimmed) =>
          \A w \in Warehouses :
              (IF w \in DOMAIN warehouse_stock_movement
               THEN warehouse_stock_movement[w] ELSE 0)
                  = AllLoggedMovement(DOMAIN item_latest_ops, w)

\* C16 happens: a thread's add_stock has returned True from the dedup cache
\* while another thread is still applying the add_stock with the same key
C16_Witness ==
    \E t, u \in Threads :
        /\ t # u
        /\ whCall[t] = whCall[u]
        /\ whCall[t].op = "ADD"
        /\ CallKey(whCall[t]) \notin whEvicted
        /\ whPc[t] = "idle" /\ whResult[t] = 1
        /\ whPc[u] = "audit"
        /\ whApplied[CallKey(whCall[u])] = 1

\* C18: under every interleaving of add_stock, remove_stock and transfer_stock
\* calls with pairwise distinct idempotency keys and positive quantities, no
\* (item, warehouse) stock is negative or stored as zero, and once all calls
\* have returned get_global_stock(item) is the total of the adds that applied
\* minus the total of the removes that applied.
C18_StockPositiveAndConserved ==
    ~whDuplicate =>
        /\ \A i \in DOMAIN item_warehouse_stocks :
              \A w \in DOMAIN item_warehouse_stocks[i] :
                  item_warehouse_stocks[i][w] > 0
        /\ WhQuiescent =>
              \A i \in InvItems :
                  GetGlobalStock(item_warehouse_stocks, i)
                      = (IF i \in DOMAIN whAdded THEN whAdded[i] ELSE 0)
                        - (IF i \in DOMAIN whRemoved THEN whRemoved[i] ELSE 0)

\* C18 happens: with distinct keys, a transfer and a remove have applied and two
\* threads are inside calls at once
C18_Witness ==
    /\ ~whDuplicate
    /\ whAdded # NoDict /\ whRemoved # NoDict /\ item_transfers # NoDict
    /\ \A t \in 1..2 : whPc[t] # "idle"

\* the locks thread t holds
HeldWarehouseLocks(t) == { s \in Stripes : item_warehouse_locks[s].owner = t }
HoldsLeafLock(t) == analytics_lock = t \/ \E s \in Stripes : item_locks[s] = t

\* Locks nest only as item-warehouse stripe(s), in increasing identity, then
\* the item stripe or the analytics lock: a thread about to acquire a lock
\* holds no item or analytics lock, and only lower item-warehouse stripes when
\* it acquires an item-warehouse stripe.
WhLockOrder ==
    \A t \in Threads :
        /\ whPc[t] \in {"lock_first", "lock_second", "lock_item", "lock_item_add",
                         "lock_item_audit", "lock_item_read",
                         "lock_analytics_transfer", "lock_analytics",
                         "lock_analytics_to"} => ~HoldsLeafLock(t)
        /\ whPc[t] = "lock_first" => HeldWarehouseLocks(t) = {}
        /\ whPc[t] = "lock_second" =>
              \A s \in HeldWarehouseLocks(t) : s < CallLocks(whCall[t])[2]
        /\ whPc[t] \in {"lock_item_audit", "lock_item_read", "lock_analytics",
                         "lock_analytics_to", "idle", "dedup"} =>
              HeldWarehouseLocks(t) = {}

\* thread t is in lock.acquire() on a lock another thread holds
WhBlocked(t) ==
    \/ /\ whPc[t] = "lock_first"
       /\ ~RLockFree(item_warehouse_locks[CallLocks(whCall[t])[1]], t)
    \/ /\ whPc[t] = "lock_second"
       /\ ~RLockFree(item_warehouse_locks[CallLocks(whCall[t])[2]], t)
    \/ /\ whPc[t] \in {"lock_item", "lock_item_add", "lock_item_audit",
                        "lock_item_read"}
       /\ item_locks[ItemStripe(whCall[t].item)] # 0
    \/ /\ whPc[t] \in {"lock_analytics_transfer", "lock_analytics",
                        "lock_analytics_to"}
       /\ analytics_lock # 0

\* while some call is running, some running call can take its next step
WhNotStuck ==
    WhQuiescent \/ \E t \in Threads : whPc[t] # "idle" /\ ~WhBlocked(t)

\* C19: transfer_stock calls in opposite directions, running with add_stock,
\* remove_stock and read queries, never deadlock: locks are only nested in the
\* order item-warehouse stripe(s), sorted by identity and taken once when equal,
\* then item stripe or analytics lock, and every call that starts returns.
C19_NoDeadlock ==
    /\ [](WhLockOrder /\ WhNotStuck)
    /\ \A t \in Threads : (whPc[t] # "idle") ~> (whPc[t] = "idle")

\* C19 happens: two transfers in opposite directions between two stripes, one
\* holding the first stripe and the other waiting for it
C19_Witness ==
    \E t, u \in Threads :
        /\ t # u
        /\ whCall[t].op = "TFR" /\ whCall[u].op = "TFR"
        /\ whCall[t].from = whCall[u].to /\ whCall[t].to = whCall[u].from
        /\ Len(CallLocks(whCall[t])) = 2
        /\ whPc[t] = "lock_second"
        /\ whPc[u] = "lock_first"

----------------------------------------------------------------------------
(* Claims about the top-K heaps.                                           *)

\* heap without key
HeapWithout(heap, key) == [k \in DOMAIN heap \ {key} |-> heap[k]]

\* offer(key, score) took before to after: a tracked key is updated in place;
\* else with room the key is inserted; else a score above the minimum replaces
\* an entry with the minimum score; else nothing changes
OfferRule(before, after, key, score, capacity) ==
    IF key \in DOMAIN before
    THEN after = TT_HeapSet(before, key, score)
    ELSE IF Cardinality(DOMAIN before) < capacity
    THEN after = TT_HeapSet(before, key, score)
    ELSE IF \E m \in DOMAIN before : score > before[m]
    THEN \E m \in DOMAIN before :
            /\ \A j \in DOMAIN before : before[m] <= before[j]
            /\ after = TT_HeapSet(HeapWithout(before, m), key, score)
    ELSE after = before

\* C20 as stated: every bounded top-K heap holds at most K keys, and every
\* update follows the offer rule.
C20_AllHeapsFollowOffer ==
    [][tkCalls' # tkCalls =>
          LET o == tkOp'
              before == TkHeaps[o.heap]
              after == TkHeaps'[o.heap]
          IN  /\ Cardinality(DOMAIN after) <= TkCapacity[o.heap]
              /\ OfferRule(before, after, o.key, o.score, TkCapacity[o.heap])]_vars

\* C20, amended: every bounded top-K heap holds at most K keys, and every
\* update follows the offer rule, except that OrderBook.global_heap removes a
\* tracked key whose new score is <= 0 instead of updating it in place.
C20_OfferExceptBookRemoval ==
    [][tkCalls' # tkCalls =>
          LET o == tkOp'
              before == TkHeaps[o.heap]
              after == TkHeaps'[o.heap]
          IN  /\ Cardinality(DOMAIN after) <= TkCapacity[o.heap]
              /\ IF o.heap = "book" /\ o.key \in DOMAIN before /\ o.score <= 0
                 THEN after = HeapWithout(before, o.key)
                 ELSE OfferRule(before, after, o.key, o.score,
                                TkCapacity[o.heap])]_vars

\* C20 happens: a full top_k_drivers was offered an untracked driver and now
\* holds it in place of the former minimum
C20_Witness ==
    /\ tkOp.heap = "drivers"
    /\ tkOp.full /\ ~tkOp.tracked
    /\ tkOp.key \in DOMAIN top_k_drivers
    /\ Cardinality(DOMAIN top_k_drivers) = TopKDefault

----------------------------------------------------------------------------
(* The order book's heap and price levels across calls (SpecBookHistory).   *)

\* C21: after any sequence of record_order, update_order and cancel_order
\* calls global_heap holds no price level whose score is <= 0.
C21_HeapScoresPositive == \A p \in DOMAIN global_heap : global_heap[p] > 0

\* C23: record_order for a new order id followed at once by cancel_order of
\* that order with a timestamp that is not older leaves get_total_quantity of
\* every price as it was before the record, whatever era the ring slot held.
C23_RecordCancelRoundTrip ==
    [][(/\ bookOp.kind = "record" /\ bkBefore.fresh
        /\ bookOp'.kind = "cancel" /\ bookOp'.id = bookOp.id
        /\ bookOp'.ts >= bookOp.ts)
       => TotalQuantities' = bkBefore.totals
      ]_vars

\* The price levels after an accepted update_order: the old level has lost the
\* old quantity and the new level has gained the new quantity.
QuantityMoved(old, new) ==
    LET before == TotalQuantities
        after  == TotalQuantities'
    IN  IF old.rounded_price = new.rounded_price
        THEN after[new.rounded_price] =
                 before[new.rounded_price] - old.quantity + new.quantity
        ELSE /\ after[old.rounded_price] = before[old.rounded_price] - old.quantity
             /\ after[new.rounded_price] = before[new.rounded_price] + new.quantity

\* C24: update_order and cancel_order for an unknown order id or with a
\* timestamp older than the stored order's are dropped (stored orders, price
\* ring buffers and global heap unchanged), and an accepted update_order moves
\* the order's quantity from the old price level to the new one.
C24_DroppedOrMoved ==
    [][bookOp'.kind \in {"update", "cancel"} /\ bookCalls' = bookCalls + 1 =>
        LET order == storage[bookOp'.id]
            stale == order = NoOrder \/ bookOp'.ts < order.timestamp
        IN  /\ stale => UNCHANGED <<storage, price_buckets, global_heap>>
            /\ (~stale /\ bookOp'.kind = "update") =>
                   QuantityMoved(order, storage'[bookOp'.id])
      ]_vars

----------------------------------------------------------------------------
(* The top-K queries (SpecTopK).                                            *)

NonIncreasing(result) ==
    \A i \in 1..(Len(result) - 1) : result[i][2] >= result[i + 1][2]

Min2(a, b) == IF a <= b THEN a ELSE b

\* C22: get_top_k_prices_global(k) and get_top_k_global_fast() return their
\* entries in non-increasing score order, and get_top_k_prices_global(k)
\* returns at most min(k, K, number of distinct price levels ever offered)
\* entries.
C22_TopKSortedAndBounded ==
    /\ NonIncreasing(tkQuery.result)
    /\ tkQuery.heap = "book" =>
          Len(tkQuery.result) <= Min2(tkQuery.k, Min2(K, Cardinality(tkOffered)))

\* C22 happens: a query with k = 1 on an order book whose heap holds two price
\* levels of different scores returned the larger one alone
C22_Witness ==
    /\ tkQuery.heap = "book" /\ tkQuery.k = 1
    /\ Cardinality(DOMAIN tk_global_heap) = 2
    /\ \E p, q \in DOMAIN tk_global_heap :
          /\ p < q /\ tk_global_heap[p] < tk_global_heap[q]
          /\ tkQuery.result = <<<<q, tk_global_heap[q]>>>>

----------------------------------------------------------------------------
(* The event tracker's rejected updates (SpecEvents).                       *)

\* C25: an update_event_timestamp that returns False (unknown event, or old
\* timestamp older than current_time - window_seconds) is a no-op: the stored
\* events, current_time and every ring buffer are as before the call.
C25_RejectedUpdateIsNoOp ==
    [][(evOp'.kind = "update" /\ evCalls' = evCalls + 1 /\ ~evOp'.result)
       => UNCHANGED <<ev_events, ev_current_time, event_type_rbs>>
      ]_vars

----------------------------------------------------------------------------
(* The car park under concurrent record_event calls (SpecCarparkThreads).   *)

\* the thread that makes this step, if it is the ring add of record_event
AddsToRing(t, lot_id, event_type) ==
    /\ cptPc[t] = "add" /\ cptPc'[t] = "time"
    /\ cptCall[t].lot = lot_id /\ cptCall[t].type = event_type

\* what _record_occupancy found lets the event through
FoundRoom(t) ==
    IF cptCall[t].type = "ENTER"
    THEN ~cptFound[t].full /\ ~cptFound[t].inside
    ELSE cptFound[t].inside

\* C26: under any interleaving of record_event calls every lot holds at most
\* its capacity, every car is in a lot at most once (the applied ENTERs of a
\* car exceed its applied EXITs by one exactly when it is inside), and the
\* enter/exit ring buffers change only for an ENTER that found room and the
\* car outside, or an EXIT that found the car inside.
C26_CapacityAndRejects ==
    /\ [](\A l \in Lots :
            LET lot == IF l \in DOMAIN lot_occupancy THEN lot_occupancy[l] ELSE {}
            IN  /\ Cardinality(lot) <= LotCapacity
                /\ \A c \in Cars : cptNet[l][c] = IF c \in lot THEN 1 ELSE 0)
    /\ [][\A l \in Lots :
            /\ enter_time_buckets'[l] # enter_time_buckets[l] =>
                  \E t \in Threads : AddsToRing(t, l, "ENTER") /\ FoundRoom(t)
            /\ exit_time_buckets'[l] # exit_time_buckets[l] =>
                  \E t \in Threads : AddsToRing(t, l, "EXIT") /\ FoundRoom(t)
         ]_vars

\* C26 happens: the lot is full, one thread's ENTER was let in and is about to
\* be added to the ring buffer, and another thread's ENTER of another car was
\* turned away because the lot was full
C26_Witness ==
    \E t, u \in Threads, l \in Lots :
        /\ t # u
        /\ l \in DOMAIN lot_occupancy
        /\ Cardinality(lot_occupancy[l]) = LotCapacity
        /\ cptPc[t] = "add" /\ cptCall[t].type = "ENTER" /\ cptCall[t].lot = l
        /\ cptPc[u] = "idle" /\ cptCall[u].type = "ENTER" /\ cptCall[u].lot = l
        /\ cptCall[u].car # cptCall[t].car
        /\ cptFound[u].full /\ ~cptFound[u].inside

----------------------------------------------------------------------------
(* The rolling occupancy rate (SpecCarparkRate).                            *)

\* the last query was get_occupancy_rate_rb("A", 20) after exactly five
\* applied ENTERs of distinct cars at timestamp 95 and no other call
FiveEntersThenRate20 ==
    /\ rateQuery.last_t = 20
    /\ rateQuery.log = [enters95 |-> 5, others |-> 0]

\* C27: with bucket 10 and capacity 100, after five ENTER events of distinct
\* cars at ts 95 and no exits, the query over the last 20 seconds averages
\* the occupancy samples (current, previous) = (5, 0): sum 5 over 2 samples.
C27_RateSamplesCurrentPrevious ==
    FiveEntersThenRate20 => rateQuery.samples = <<5, 0>>

\* C27 as the code computes it: the query over the last 20 seconds averages
\* three samples (5, 0, 0), the current occupancy and one sample for each of
\* the two buckets the 20 seconds span: sum 5 over 3 samples.
C27_RateSamplesThree ==
    FiveEntersThenRate20 => rateQuery.samples = <<5, 0, 0>>

\* C27 happens: the query was made in the scenario, with five cars inside
C27_Witness ==
    /\ FiveEntersThenRate20
    /\ Cardinality(rateTracker.lot) = 5
    /\ rateTracker.current_time = 95
    /\ Len(rateQuery.samples) = 3

----------------------------------------------------------------------------
(* The unique-visitor query (SpecVisits).                                   *)

\* the users with a recorded visit in a bucket of the range
VisitorsInBuckets(first_index, last_index) ==
    {v[1] : v \in {w \in vtVisits :
                      /\ first_index <= VT_GetBucketIndex(w[2])
                      /\ VT_GetBucketIndex(w[2]) <= last_index}}

\* C28: get_unique_visitors_last_t_seconds(t) returns the number of distinct
\* users with a visit in a bucket whose index lies in
\* [index(max(0, current_time - t)), index(current_time)], and counts no visit
\* from a bucket older than that of current_time - window_seconds, even when
\* t > window_seconds and whether or not a cleanup has run.
C28_UniqueVisitorsInWindow ==
    LET now == vtQuery.now
        from_t == VT_GetBucketIndex(Max2(0, now - vtQuery.t))
        from_window == VT_GetBucketIndex(Max2(0, now - WindowSeconds))
    IN  vtQuery.t > 0 =>
            vtQuery.result =
                Cardinality(VisitorsInBuckets(Max2(from_t, from_window),
                                              VT_GetBucketIndex(now)))

----------------------------------------------------------------------------
(* The windowed hashtag counts (SpecTrendingWindow).                        *)

\* the number of posts of the hashtag recorded before the last query with a
\* timestamp >= cutoff_time
PostsFrom(hashtag, cutoff_time) ==
    Cardinality({i \in 1..Len(twQuery.posts) :
                    /\ twQuery.posts[i][1] = hashtag
                    /\ twQuery.posts[i][2] >= cutoff_time})

\* C29: for non-decreasing timestamps and t <= window_seconds,
\* get_top_k_trending_slow(k, t) and get_post_rate(hashtag, t) count every
\* post with timestamp >= current_time - t, the post at current_time - t
\* itself included, and no cleanup has discarded such a post.
C29_WindowCountIncludesBoundary ==
    (twQuery.op # "none" /\ twQuery.t <= TT_WindowSeconds) =>
        /\ \A i \in 1..Len(twQuery.result) :
              twQuery.result[i][2] =
                  PostsFrom(twQuery.result[i][1], twQuery.now - twQuery.t)
        /\ \A hashtag \in Items :
              PostsFrom(hashtag, twQuery.now - twQuery.t) > 0 =>
                  DictHas(tw_hashtag_timestamps, hashtag)

----------------------------------------------------------------------------
(* Sketch subtraction (SpecSketchMinus).                                    *)

\* C30: after minus / subtract every cell equals max(0, a - b) for the cell
\* values a of the sketch and b of the other one, a < b included, and is never
\* the wrapped-around difference; for the impression tracker's sketch and for
\* the hashtag tracker's.
C30_SubtractionSaturates ==
    \A cell \in Rows \X Cols :
        smOp.result[cell] = Max2(0, smOp.table[cell] - smOp.other[cell])

----------------------------------------------------------------------------
(* Rides (SpecRides).                                                       *)

RdQuiescent == \A t \in Threads : rdPc[t] = "idle"

RECURSIVE SumOver(_, _)
\* the sum of f[x] over the elements x of keys
SumOver(f, keys) ==
    IF keys = {} THEN 0
    ELSE LET x == CHOOSE y \in keys : TRUE
         IN  f[x] + SumOver(f, keys \ {x})

\* C31: concurrent end_ride and cancel_ride calls on a ride take effect once per
\* start of the ride: for a ride started once exactly one of them does, the
\* drivers' num_completed_rides + num_canceled_rides grow by exactly 1 for it,
\* and distance reaches the driver, city and global totals only from the
\* end_ride calls that took effect.
C31_EndOrCancelOnce ==
    /\ \A r \in RideIds :
          /\ rdEffects[r].ends + rdEffects[r].cancels <= rdEffects[r].starts
          /\ r \notin DOMAIN active_rides =>
                rdEffects[r].ends + rdEffects[r].cancels = rdEffects[r].starts
    /\ RdQuiescent =>
          /\ SumOver([d \in DOMAIN driver_stats |->
                         driver_stats[d].num_completed_rides
                             + driver_stats[d].num_canceled_rides],
                     DOMAIN driver_stats)
                = SumOver([r \in RideIds |-> rdEffects[r].ends + rdEffects[r].cancels],
                          RideIds)
          /\ SumOver([d \in DOMAIN driver_stats |->
                         driver_stats[d].num_completed_rides], DOMAIN driver_stats)
                = SumOver([r \in RideIds |-> rdEffects[r].ends], RideIds)
          /\ SumOver([d \in DOMAIN driver_stats |-> driver_stats[d].total_distance],
                     DOMAIN driver_stats) = rdKm
          /\ SumOver([c \in DOMAIN city_stats |-> city_stats[c].total_distance],
                     DOMAIN city_stats) = rdKm
          /\ total_city_stats.total_distance = rdKm

\* C31 happens: a ride started once has been through a cancel_ride that took
\* effect while an end_ride call on it with a distance came back empty-handed,
\* and every call has returned
C31_Witness ==
    /\ RdQuiescent
    /\ \E r \in RideIds :
          /\ rdEffects[r] = [starts |-> 1, ends |-> 0, cancels |-> 1,
                             missed_ends |-> 1]
          /\ \E d \in DOMAIN driver_stats :
                driver_stats[d] = [NewDriverStats EXCEPT !.num_canceled_rides = 1]
    /\ \A t \in Threads : rdCalls[t] >= 1
    /\ rdKm = 0

\* C37: whenever no call is in flight, get_active_rides(None) is the number of
\* rides in the active-ride shards and get_active_rides(city) the number of
\* those rides in the city.
C37_ActiveRidesMatchShards ==
    RdQuiescent =>
        /\ GetActiveRidesTotal = Cardinality(DOMAIN active_rides)
        /\ \A city \in Cities :
              GetActiveRides(city) =
                  Cardinality({r \in DOMAIN active_rides : active_rides[r].city = city})

\* the distances of a list of (driver_id, distance) pairs
DistancesOf(pairs) == [i \in 1..Len(pairs) |-> pairs[i][2]]

\* C38: once every call has returned, and no ride was cancelled, the computed
\* and the on-demand top-k driver lists hold the same distances in the same
\* order for every k from 1 to top_k_default, and every score in top_k_drivers
\* is its driver's total_distance.
C38_ComputedMatchesOnDemand ==
    (RdQuiescent /\ \A r \in RideIds : rdEffects[r].cancels = 0) =>
        /\ \A k \in 1..TopKDefault :
              DistancesOf(GetTopDriversComputed(k)) = DistancesOf(GetTopDriversOnDemand(k))
        /\ \A d \in DOMAIN rd_top_k_drivers :
              /\ d \in DOMAIN driver_stats
              /\ rd_top_k_drivers[d] = driver_stats[d].total_distance

----------------------------------------------------------------------------
(* Memory of the rolling sketches (SpecVisits).                             *)

\* RollingHLL.num_buckets
VT_NumBuckets == WindowSeconds \div BucketSize + 1

\* C32: in every reachable state the number of per-bucket sketches held by
\* the VisitTracker's RollingHLL is at most num_buckets =
\* window_seconds / bucket_size + 1, whatever timestamps were recorded.
C32_SketchesBounded == Cardinality(DOMAIN vt_buckets) <= VT_NumBuckets

----------------------------------------------------------------------------
(* Start times of a ring's buckets (SpecRingEras).                          *)

TheRings == {[impl |-> "et", buckets |-> etRing], [impl |-> "cp", buckets |-> cpRing]}

\* the counts added to the era and not taken back
LiveInEra(impl, start_time) ==
    LET live == {e \in BagToSet(ringLive) :
                    e[1] = impl /\ GetBucketStartTime(e[2]) = start_time}
    IN  SumOver([e \in live |-> e[3] * CopiesIn(e, ringLive)], live)

----------------------------------------------------------------------------
(* Concurrent adds to one slot of the impression sketch                     *)
(* (SpecImpressionThreads).                                                 *)

\* C34: when threads add to one ring slot with an era newer than the one
\* stored there (no add being older than the slot's era), the old bucket is
\* subtracted from merged once for each time the bucket is cleared of it, and
\* once all adds have returned merged is the cell-wise sum of the buckets.
C34_SubtractedOnceThenSum ==
    ((\A t \in Threads : icPc[t] = "idle") /\ icNote.dropped = 0) =>
        /\ icNote.subtracted = icNote.cleared
        /\ \A cell \in Rows \X Cols :
              ic_merged.table[cell] =
                  SumOver([i \in DOMAIN ic_buckets |-> ic_buckets[i].table[cell]],
                          DOMAIN ic_buckets)

----------------------------------------------------------------------------
(* Lock order in the trending tracker (SpecTrending).                       *)

\* the steps that begin by requesting a hashtag stripe lock or a bucket stripe
\* lock of the rolling sketch
StripeRequests == {"append", "cms_bucket", "cleanup_trim", "cleanup_delete"}

\* C35: every path takes its locks in the order hashtag stripe, bucket stripe,
\* global lock: no thread requests a hashtag stripe or a bucket stripe while
\* it holds the tracker's global lock.
C35_NoStripeRequestUnderGlobalLock ==
    \A t \in Threads : htPc[t] \in StripeRequests => tt_global_lock # t

----------------------------------------------------------------------------
(* Concurrent updates of one order (SpecBookUpdates).                       *)

\* the quantities of the stored orders at the price level
StoredQuantity(rounded_price) ==
    SumOver([o \in OrderIds |->
                IF storage[o] # NoOrder /\ storage[o].rounded_price = rounded_price
                THEN storage[o].quantity ELSE 0], OrderIds)

\* C36: whenever no call is in flight, get_total_quantity of every price level
\* is the sum of the quantities of the stored orders at that level.
C36_RingsAgreeWithStorage ==
    (\A t \in Threads : callPc[t] = "idle") =>
        \A rounded_price \in RoundedPrices :
            OB_Total(price_buckets[rounded_price]) = StoredQuantity(rounded_price)

----------------------------------------------------------------------------
(* The bed and patient counters of HospitalSystem (SpecHospital).           *)

\* the admitted patients of the hospital
AdmittedIn(hospital) ==
    {x \in DOMAIN patients : patients[x].hospital = hospital}

HsCountersAgree ==
    /\ total_occupied_beds = Cardinality(DOMAIN patients)
    /\ total_occupied_beds =
           SumOver([hospital \in DOMAIN hospital_occupied_beds |->
                       Cardinality(hospital_occupied_beds[hospital])],
                   DOMAIN hospital_occupied_beds)
    /\ \A hospital \in Hospitals :
          DefaultGet(hospital_stats, hospital, NewHospitalStats).num_active_patients
              = Cardinality(AdmittedIn(hospital))

\* the call of this step names a patient already admitted, a bed already
\* occupied, a patient who is not admitted, or a discharge before the admission
HsRejectedCall ==
    LET c == hsLast'
        occupied == /\ c.hospital \in DOMAIN hospital_occupied_beds
                    /\ c.bed_id \in hospital_occupied_beds[c.hospital]
        known == c.patient_id \in DOMAIN patients
    IN  /\ hsCalls' # hsCalls
        /\ \/ c.op = "start_admission" /\ (known \/ occupied)
           \/ c.op = "end_admission"
                  /\ (~known \/ c.time < patients[c.patient_id].admission_time)
           \/ c.op = "transfer_patient" /\ (~known \/ occupied)

HsState ==
    <<patients, hospital_occupied_beds, total_occupied_beds, hospital_stats,
      doctor_stats, hs_top_k_doctors, hs_top_k_hospitals>>

\* C39: after any sequence of start_admission, end_admission and
\* transfer_patient calls, total_occupied_beds is the number of admitted
\* patients and the sum of the sizes of the hospitals' occupied-bed sets, every
\* hospital's num_active_patients is the number of its admitted patients, and a
\* rejected call changes nothing.
C39_CountersAgreeAndRejectionsChangeNothing ==
    /\ []HsCountersAgree
    /\ [][HsRejectedCall => UNCHANGED HsState]_vars

\* a transfer to another hospital has just gone through with two patients
\* admitted, after a discharge and a rejected call
C39_Witness ==
    /\ hsLast.op = "transfer_patient"
    /\ hsLast.patient_id \in DOMAIN patients
    /\ patients[hsLast.patient_id].hospital = hsLast.hospital
    /\ patients[hsLast.patient_id].bed_id = hsLast.bed_id
    /\ Cardinality(DOMAIN patients) = 2
    /\ hsRejected > 0
    /\ \E hospital \in DOMAIN hospital_stats :
          hospital_stats[hospital].num_discharged > 0

----------------------------------------------------------------------------
(* The samples of get_occupancy_rate_rb (SpecCarparkSamples).               *)

\* the quantity the ring holds for the era
QuantityOfEra(ring, era) ==
    LET bucket == ring[RT_GetBucketIndex(era)]
    IN  IF bucket.start_time = era THEN bucket.quantity ELSE 0

\* enters minus exits of the era's bucket
NetOfEra(tracker, era) ==
    QuantityOfEra(tracker.enter, era) - QuantityOfEra(tracker.exit, era)

\* the span the query averages over
ClampedSpan(last_t_seconds) ==
    Min2(RateConfig.window_seconds, Max2(RateConfig.bucket_size, last_t_seconds))

\* the samples are the ones the sentence describes
SamplesAsDescribed(tracker, last_t_seconds, samples) ==
    LET n == ClampedSpan(last_t_seconds) \div RateConfig.bucket_size
    IN  /\ Len(samples) = n + 1
        /\ samples[1] = Cardinality(tracker.lot)
        /\ \A i \in 1..n :
              samples[i + 1] =
                  Max2(0, samples[i]
                          - NetOfEra(tracker,
                                RT_GetBucketStartTime(
                                    tracker.current_time
                                        - (i - 1) * RateConfig.bucket_size)))
        /\ \A i \in 1..(n + 1) : samples[i] >= 0

\* 5 enters at 100, 3 at 110, 2 exits at 120
TestRingbufferState(tracker) ==
    /\ tracker.current_time = 120
    /\ Cardinality(tracker.lot) = 6
    /\ QuantityOfEra(tracker.enter, 100) = 5
    /\ QuantityOfEra(tracker.enter, 110) = 3
    /\ QuantityOfEra(tracker.enter, 120) = 0
    /\ QuantityOfEra(tracker.exit, 120) = 2
    /\ QuantityOfEra(tracker.exit, 110) = 0
    /\ QuantityOfEra(tracker.exit, 100) = 0
    /\ QuantityOfEra(tracker.enter, 90) = 0
    /\ QuantityOfEra(tracker.exit, 90) = 0

====
